---------------------------- MODULE Spec2Model ----------------------------
(***************************************************************************)
(* A model of the point-cloud ingestion and level-of-detail pipeline of    *)
(* pcd-viewer:                                                             *)
(*   - the chunk scheduler of PointCloudEngine (addChunk, removeChunk,     *)
(*     updateVisibilityAndLOD, updateOptions, dispose);                    *)
(*   - the LZF decompressor, in the two versions the repository holds      *)
(*     (RvizViewer/utils/pcdParser.ts and the older copy of the parser);   *)
(*   - the PCD decoders (header, ASCII, binary, binary_compressed) and the *)
(*     worker's ASCII decoder.                                             *)
(* Positions and indices are 0-based as in the source; a JavaScript array  *)
(* a is the sequence whose element a[i] is Seq[i + 1].                     *)
(***************************************************************************)
EXTENDS Integers, Sequences, FiniteSets, TLC

(***************************************************************************)
(* Bounds of the model.                                                    *)
(***************************************************************************)
MaxObjs == 2
\* chunk objects an engine is handed over its life
MaxIn == 5
\* longest LZF input stream
MaxPayload == 11
\* length of the payloads that are encoded and decoded again
MaxSeed == 2
\* longest pattern a payload repeats
MaxLines == 2
\* most lines of points in an ASCII file
MaxBinaryPoints == 2
\* most points in a binary file of float32 points
MaxPoints == 3
\* most points handed to buildOctree and to voxelDownsample
MaxLodLevels == 3
\* most entries of the lodLevels option of a load
MaxChunkSize == 2
\* largest chunkSize option of a load
MaxTicks == 19
\* most callbacks of the simulated-progress timer in a load
MaxRuns == 2
\* most calls of PointCloudLoader.loadPointCloud
MaxCalls == 3
\* most calls of SceneManager.updatePointCloud and clearPointCloud


VARIABLES
    objs,         \* chunk objects handed to addChunk, in creation order
    visible,      \* handles whose pointsObject.visible is true
    chunks,       \* PointCloudEngine.chunks: id -> handle (0: absent)
    chunksByLOD,  \* PointCloudEngine.chunksByLOD: lod -> list of handles
    scene,        \* handles whose pointsObject is in the THREE scene
    disposed,     \* handles whose geometry and material were disposed
    stats,        \* PointCloudEngine.stats
    options,      \* PointCloudEngine.options
    frame,        \* whether the last operation was a frame, and where it stopped
    alive,        \* FALSE once dispose() has run
    lzf,          \* one call of lzfDecompress: its arguments and locals
    enc,          \* a payload and the LZF stream being written for it
    dec,          \* one decode of a PCD file: the entry point, the file, the result
    part,         \* one call of buildOctree or voxelDownsample and its result
    loads,        \* the loads PointCloudViewer started, in the order of the requests
    ld,           \* PointCloudLoader: the load in progress, the cache it uses
    sm            \* SceneManager: the point-cloud data and the batch timers

schedVars == <<objs, visible, chunks, chunksByLOD, scene, disposed, stats,
               options, frame, alive>>

vars == <<schedVars, lzf, enc, dec, part, loads, ld, sm>>

(***************************************************************************)
(* Helpers on sequences.                                                   *)
(***************************************************************************)
Range(s) == {s[i] : i \in 1..Len(s)}

RECURSIVE SumOver(_, _)
SumOver(S, f) ==
    IF S = {} THEN 0
    ELSE LET x == CHOOSE y \in S : TRUE IN f[x] + SumOver(S \ {x}, f)

\* Array.prototype.indexOf followed by splice(index, 1)
RemoveFirst(s, x) ==
    IF x \notin Range(s) THEN s
    ELSE LET i == CHOOSE k \in 1..Len(s) :
                      s[k] = x /\ \A j \in 1..(k - 1) : s[j] # x
         IN  SubSeq(s, 1, i - 1) \o SubSeq(s, i + 1, Len(s))

(***************************************************************************)
(* PointCloudEngine                                                        *)
(***************************************************************************)
\* the inputs of the engine: chunk ids, LOD levels (0 = finest), points per
\* chunk, and the values of maxPointCount and pointBudget
Ids == {1, 2}
Lods == {0, 1}
Counts == {1, 2}
Caps == {1, 2}

\* order lists the chunks a frame went through, in that order, each with
\* whether it was shown and charged to renderedCount; frustum is the set of
\* chunks whose bounds the frame found in the frustum
NoFrame == [done |-> FALSE, tier |-> -1, order |-> << >>, frustum |-> {}]

SchedInit ==
    /\ objs = << >>
    /\ visible = {}
    /\ chunks = [i \in Ids |-> 0]
    /\ chunksByLOD = [l \in Lods |-> << >>]
    /\ scene = {}
    /\ disposed = {}
    /\ stats = [totalPoints |-> 0, renderedPoints |-> 0, visibleChunks |-> 0]
    /\ options \in [maxPointCount : Caps, pointBudget : Caps,
                    enableFrustumCulling : BOOLEAN]
    /\ frame = NoFrame
    /\ alive = TRUE

\* the engine of a run that is about another component
SchedIdle ==
    /\ SchedInit
    /\ options = [maxPointCount |-> 1, pointBudget |-> 1,
                  enableFrustumCulling |-> FALSE]

\* addChunk(chunk): the chunk is a fresh object; its THREE.Points starts
\* with visible = true
addChunk(id, lod, count) ==
    /\ alive
    /\ Len(objs) < MaxObjs
    /\ LET h == Len(objs) + 1 IN
        /\ objs' = Append(objs, [id |-> id, lod |-> lod, count |-> count])
        /\ chunks' = [chunks EXCEPT ![id] = h]
        /\ chunksByLOD' = [chunksByLOD EXCEPT ![lod] = Append(@, h)]
        /\ visible' = visible \cup {h}
        /\ scene' = scene \cup {h}
        /\ stats' = [stats EXCEPT !.totalPoints = @ + count]
    /\ frame' = NoFrame
    /\ UNCHANGED <<disposed, options, alive>>

removeChunk(id) ==
    /\ alive
    /\ chunks[id] # 0
    /\ LET h == chunks[id] IN
        /\ scene' = scene \ {h}
        /\ disposed' = disposed \cup {h}
        /\ chunksByLOD' = [chunksByLOD EXCEPT
                              ![objs[h].lod] = RemoveFirst(@, h)]
        /\ chunks' = [chunks EXCEPT ![id] = 0]
        /\ stats' = [stats EXCEPT !.totalPoints = @ - objs[h].count]
    /\ frame' = NoFrame
    /\ UNCHANGED <<objs, visible, options, alive>>

\* the handles listed under any LOD
Listed(byLOD) == UNION {Range(byLOD[l]) : l \in DOMAIN byLOD}

\* the handles listed under a LOD greater than lod
HigherLOD(byLOD, lod) ==
    UNION {Range(byLOD[l]) : l \in {k \in DOMAIN byLOD : k > lod}}

\* the inner loop of updateVisibilityAndLOD over chunksByLOD.get(lod), from
\* index i; st = [vis, rendered, nvis, tier, order]; tier >= 0 once the inner
\* break was taken
RECURSIVE ChunkLoop(_, _, _, _, _, _, _)
ChunkLoop(os, byLOD, opts, inFrustum, lod, i, st) ==
    LET list == byLOD[lod] IN
    IF i > Len(list) THEN st
    ELSE
      LET h == list[i] IN
      IF opts.enableFrustumCulling /\ h \notin inFrustum
      THEN ChunkLoop(os, byLOD, opts, inFrustum, lod, i + 1,
                     [st EXCEPT !.vis = @ \ {h},
                                !.order = Append(@, [h |-> h,
                                                     shown |-> FALSE])])
      ELSE IF st.rendered + os[h].count > opts.maxPointCount
      THEN ChunkLoop(os, byLOD, opts, inFrustum, lod, i + 1,
                     [st EXCEPT !.vis = @ \ {h},
                                !.order = Append(@, [h |-> h,
                                                     shown |-> FALSE])])
      ELSE
        LET shown == [st EXCEPT !.vis = @ \cup {h},
                                !.rendered = @ + os[h].count,
                                !.nvis = @ + 1,
                                !.order = Append(@, [h |-> h,
                                                     shown |-> TRUE])]
        IN  IF shown.rendered >= opts.pointBudget
            THEN [shown EXCEPT !.vis = @ \ HigherLOD(byLOD, lod),
                               !.tier = lod]
            ELSE ChunkLoop(os, byLOD, opts, inFrustum, lod, i + 1, shown)

\* the outer loop over lodLevels, the keys of chunksByLOD sorted by a - b
RECURSIVE LodLoop(_, _, _, _, _, _)
LodLoop(os, byLOD, opts, inFrustum, lod, st) ==
    IF lod \notin DOMAIN byLOD THEN st
    ELSE
      LET after == ChunkLoop(os, byLOD, opts, inFrustum, lod, 1, st) IN
      IF after.rendered >= opts.pointBudget THEN after
      ELSE LodLoop(os, byLOD, opts, inFrustum, lod + 1, after)

updateVisibilityAndLOD(os, byLOD, opts, vis, inFrustum) ==
    LodLoop(os, byLOD, opts, inFrustum, 0,
            [vis |-> vis, rendered |-> 0, nvis |-> 0, tier |-> -1,
             order |-> << >>])

\* render(): one frame; the camera decides which chunk bounds intersect the
\* frustum
render(inFrustum) ==
    /\ alive
    /\ LET r == updateVisibilityAndLOD(objs, chunksByLOD, options, visible,
                                       inFrustum)
       IN  /\ visible' = r.vis
           /\ stats' = [stats EXCEPT !.renderedPoints = r.rendered,
                                     !.visibleChunks = r.nvis]
           /\ frame' = [done |-> TRUE, tier |-> r.tier, order |-> r.order,
                        frustum |-> inFrustum]
    /\ UNCHANGED <<objs, chunks, chunksByLOD, scene, disposed, options, alive>>

updateOptions(maxPointCount, pointBudget, culling) ==
    /\ alive
    /\ options' = [maxPointCount |-> maxPointCount,
                   pointBudget |-> pointBudget,
                   enableFrustumCulling |-> culling]
    /\ options' # options
    /\ frame' = NoFrame
    /\ UNCHANGED <<objs, visible, chunks, chunksByLOD, scene, disposed, stats,
                   alive>>

dispose ==
    /\ alive
    /\ LET live == {chunks[i] : i \in Ids} \ {0} IN
        /\ scene' = scene \ live
        /\ disposed' = disposed \cup live
    /\ chunks' = [i \in Ids |-> 0]
    /\ chunksByLOD' = [l \in Lods |-> << >>]
    /\ alive' = FALSE
    /\ frame' = NoFrame
    /\ UNCHANGED <<objs, visible, stats, options>>


(***************************************************************************)
(* lzfDecompress, in RvizViewer/utils/pcdParser.ts ("utils") and in the    *)
(* older copy of the parser ("legacy").                                    *)
(*                                                                         *)
(* The output buffer is new Uint8Array(decompressedSize): its length never *)
(* changes and it starts as zeros.  The function writes it front to back,  *)
(* at outputPos only, so the buffer is kept as its length and the bytes    *)
(* written so far (data, of length outputPos); every byte from Len(data)   *)
(* to length - 1 is still the initial zero.                                *)
(***************************************************************************)
LzfVersions == {"utils", "legacy"}

\* the bytes an input stream is made of: literal-run controls (0, 1), match
\* controls (32: length 3; 224: length 9 + the next byte), offsets and data
LzfBytes == {0, 1, 32, 89, 224}

\* the values of decompressedSize
LzfSizes == {2, 4, 100, 200}

RECURSIVE SeqsUpTo(_, _)
SeqsUpTo(S, n) ==
    IF n = 0 THEN {<< >>}
    ELSE LET shorter == SeqsUpTo(S, n - 1)
         IN  shorter \cup {Append(q, b) : q \in {r \in shorter : Len(r) = n - 1},
                                          b \in S}

\* typedArray[i]: undefined outside the array, which a typed array stores as 0
ByteAt(buf, i) ==
    IF i >= 0 /\ i < Len(buf.data) THEN buf.data[i + 1] ELSE 0

LzfStart(ver, compressed, decompressedSize) ==
    [ver |-> ver,
     compressed |-> compressed,
     decompressedSize |-> decompressedSize,
     decompressed |-> [length |-> decompressedSize, data |-> << >>],
     inputPos |-> 0,
     outputPos |-> 0,
     status |-> "loop",
     error |-> "none"]

\* while (inputPos < inputLength && outputPos < decompressedSize)
LzfLoopCond(st) ==
    /\ st.inputPos < Len(st.compressed)
    /\ st.outputPos < st.decompressedSize

\* a literal run that is cut to the input left but not to the room left in
\* the output
LzfLiteralUnclipped(st, ctrl) ==
    LET inputPos == st.inputPos + 1
        inputLength == Len(st.compressed)
        length1 == ctrl + 1
        length2 == IF inputPos + length1 > inputLength
                   THEN inputLength - inputPos ELSE length1
    IN  IF length2 = 0
        THEN [st EXCEPT !.inputPos = inputPos, !.status = "break"]
        ELSE [st EXCEPT
                !.decompressed.data =
                    @ \o SubSeq(st.compressed, inputPos + 1, inputPos + length2),
                !.inputPos = inputPos + length2,
                !.outputPos = @ + length2]

\* ctrl < 32: a literal run; inputPos is already past the control byte
LzfLiteral(st, ctrl) ==
    LET inputPos == st.inputPos + 1
        inputLength == Len(st.compressed)
        length1 == ctrl + 1
        length2 == IF inputPos + length1 > inputLength
                   THEN inputLength - inputPos ELSE length1
        length3 == IF st.outputPos + length2 > st.decompressedSize
                   THEN st.decompressedSize - st.outputPos ELSE length2
    IN  IF length2 = 0 \/ length3 = 0
        THEN [st EXCEPT !.inputPos = inputPos, !.status = "break"]
        ELSE [st EXCEPT
                !.decompressed.data =
                    @ \o SubSeq(st.compressed, inputPos + 1, inputPos + length3),
                !.inputPos = inputPos + length3,
                !.outputPos = @ + length3]

\* a check of the upper end only
LzfOffsetNotBehind(offset, outputPos) == offset >= outputPos

\* if (offset < 0 || offset >= outputPos) throw
LzfBadOffset(offset, outputPos) == offset < 0 \/ offset >= outputPos

\* decompressed.copyWithin(outputPos, offset, offset + n): the bytes as they
\* were before the copy, the unwritten ones being 0
LzfCopyWithin(buf, offset, n) ==
    LET outputPos == Len(buf.data)
        room == buf.length - outputPos
        copied == IF n < room THEN n ELSE room
    IN  [buf EXCEPT !.data =
            @ \o [i \in 1..copied |-> ByteAt(buf, offset + i - 1)]]

\* the byte at offset, n times
LzfCopyRepeatFirst(buf, offset, n) ==
    LET outputPos == Len(buf.data)
        room == buf.length - outputPos
        copied == IF n < room THEN n ELSE room
    IN  [buf EXCEPT !.data = @ \o [i \in 1..copied |-> ByteAt(buf, offset)]]

\* for (i = 0; i < n; i++)
\*   { if (outputPos >= decompressedSize) break
\*     decompressed[outputPos++] = decompressed[offset + i] }
\* The bytes are copied one at a time in increasing order, so the copy reads
\* again what it has written: with d = outputPos - offset at the start, byte
\* i of the copy is the byte that was at offset + (i mod d) before the loop.
LzfCopyMatch(buf, offset, n) ==
    LET outputPos == Len(buf.data)
        d == outputPos - offset
        room == buf.length - outputPos
        copied == IF n < room THEN n ELSE room
    IN  [buf EXCEPT !.data =
            @ \o [i \in 1..copied |-> ByteAt(buf, offset + ((i - 1) % d))]]

\* length = (ctrl >> 5) (+ the extra byte when 7) + 2
LzfMatchLength(ctrl, extra) ==
    (IF ctrl \div 32 = 7 THEN 7 + extra ELSE ctrl \div 32) + 2

\* ctrl >= 32: a back-reference; inputPos is already past the control byte
LzfMatch(st, ctrl) ==
    LET inputLength == Len(st.compressed)
        p1 == st.inputPos + 1
        extended == (ctrl \div 32 = 7)
        p2 == IF extended THEN p1 + 1 ELSE p1
    IN  IF extended /\ p1 >= inputLength
        THEN [st EXCEPT !.inputPos = p1, !.status = "threw",
                        !.error = "end of input reading extended length"]
        ELSE IF p2 >= inputLength
        THEN [st EXCEPT !.inputPos = p2, !.status = "threw",
                        !.error = "end of input reading offset"]
        ELSE
          LET length1 == LzfMatchLength(ctrl, IF extended
                                              THEN st.compressed[p1 + 1] ELSE 0)
              offsetLow == st.compressed[p2 + 1]
              offsetHigh == ctrl % 32
              offset == st.outputPos - (offsetHigh * 256 + offsetLow) - 1
              length2 == IF st.outputPos + length1 > st.decompressedSize
                         THEN st.decompressedSize - st.outputPos ELSE length1
          IN  IF LzfBadOffset(offset, st.outputPos)
              THEN [st EXCEPT !.inputPos = p2 + 1, !.status = "threw",
                              !.error = "invalid offset"]
              ELSE IF length2 = 0
              THEN [st EXCEPT !.inputPos = p2 + 1, !.status = "break"]
              ELSE LET buf == LzfCopyMatch(st.decompressed, offset, length2)
                   IN  [st EXCEPT !.decompressed = buf,
                                  !.inputPos = p2 + 1,
                                  !.outputPos = Len(buf.data)]

\* one pass through the body of the while loop
LzfIteration(st) ==
    LET ctrl == st.compressed[st.inputPos + 1]
    IN  IF ctrl < 32 THEN LzfLiteral(st, ctrl) ELSE LzfMatch(st, ctrl)

\* decompressed.subarray(0, outputPos): the bytes produced, without the tail
LzfTruncate(buf, outputPos) ==
    [length |-> outputPos, data |-> SubSeq(buf.data, 1, outputPos)]

\* decompressed.fill(0, outputPos)
LzfFill(buf, outputPos) ==
    [buf EXCEPT !.data = SubSeq(@, 1, outputPos)]

\* diff > decompressedSize * 0.01, for integers: the double 0.01 is a little
\* above 1/100, so the product is never below the exact hundredth and the
\* test is diff > floor(decompressedSize / 100)
LzfOverOnePercent(diff, decompressedSize) == diff > decompressedSize \div 100

\* utils, after the loop: a shortfall above 1% throws, a smaller one is
\* zero-filled
LzfSizeCheckUtils(st) ==
    LET diff == st.decompressedSize - st.outputPos
    IN  IF st.outputPos # st.decompressedSize
        THEN IF LzfOverOnePercent(diff, st.decompressedSize)
             THEN [st EXCEPT !.status = "threw", !.error = "size mismatch"]
             ELSE [st EXCEPT !.decompressed = LzfFill(@, st.outputPos),
                             !.status = "returned"]
        ELSE [st EXCEPT !.status = "returned"]

\* legacy, after the loop: a shortfall above 1% is logged and zero-filled
LzfSizeCheckLegacy(st) ==
    LET diff == st.decompressedSize - st.outputPos
    IN  IF /\ st.outputPos < st.decompressedSize
           /\ LzfOverOnePercent(diff, st.decompressedSize)
        THEN [st EXCEPT !.decompressed = LzfFill(@, st.outputPos),
                        !.status = "returned"]
        ELSE [st EXCEPT !.status = "returned"]

LzfSizeCheck(st) ==
    IF st.ver = "utils" THEN LzfSizeCheckUtils(st) ELSE LzfSizeCheckLegacy(st)

\* the whole call
RECURSIVE LzfRun(_)
LzfRun(st) ==
    IF st.status = "threw" THEN st
    ELSE IF st.status = "loop" /\ LzfLoopCond(st) THEN LzfRun(LzfIteration(st))
    ELSE LzfSizeCheck(st)

lzfDecompress(ver, compressed, decompressedSize) ==
    LzfRun(LzfStart(ver, compressed, decompressedSize))

LzfInit ==
    \E ver \in LzfVersions, c \in SeqsUpTo(LzfBytes, MaxIn), n \in LzfSizes :
        lzf = LzfStart(ver, c, n)

LzfIterate ==
    /\ lzf.status = "loop"
    /\ LzfLoopCond(lzf)
    /\ lzf' = LzfIteration(lzf)

LzfFinish ==
    /\ lzf.status = "break" \/ (lzf.status = "loop" /\ ~LzfLoopCond(lzf))
    /\ lzf' = LzfSizeCheck(lzf)

\* no payload is being encoded
EncIdle == enc = [payload |-> << >>, out |-> << >>, pos |-> 0, started |-> FALSE]

LzfIdle == lzf = LzfStart("utils", << >>, 0)

(***************************************************************************)
(* Writing an LZF stream for a payload, in the format lzfDecompress reads: *)
(* a literal run is the control byte k - 1 < 32 and k payload bytes; a     *)
(* back-reference of length len >= 3 to the bytes dist >= 1 positions      *)
(* back is ((len - 2) << 5 | off >> 8), off & 255 with off = dist - 1, or, *)
(* from len - 2 = 7 on, (7 << 5 | off >> 8), len - 9, off & 255.  Any      *)
(* sequence of such items that spells the payload is a stream for it.      *)
(***************************************************************************)
PayloadBytes == {7, 9}

\* the payloads: a pattern repeated up to MaxPayload bytes, so that the
\* payload has something to refer back to
EncInit ==
    \E seed \in SeqsUpTo(PayloadBytes, MaxSeed) \ {<< >>} :
        enc = [payload |-> [i \in 1..MaxPayload |->
                               seed[((i - 1) % Len(seed)) + 1]],
               out |-> << >>, pos |-> 0, started |-> FALSE]

EncodeLiteral(k) ==
    /\ ~enc.started
    /\ k >= 1 /\ k <= 32
    /\ enc.pos + k <= Len(enc.payload)
    /\ enc' = [enc EXCEPT
                 !.out = @ \o <<k - 1>>
                           \o SubSeq(enc.payload, enc.pos + 1, enc.pos + k),
                 !.pos = @ + k]

\* the payload repeats itself: the len bytes from pos on equal the bytes
\* from pos - dist on
EncRepeats(p, pos, dist, len) ==
    /\ dist >= 1 /\ dist <= pos
    /\ pos + len <= Len(p)
    /\ \A i \in 1..len : p[pos + i] = p[pos - dist + i]

EncodeMatch(dist, len) ==
    /\ ~enc.started
    /\ len >= 3 /\ len <= 264
    /\ EncRepeats(enc.payload, enc.pos, dist, len)
    /\ LET off == dist - 1 IN
       enc' = [enc EXCEPT
                 !.out = @ \o (IF len - 2 < 7
                               THEN <<(len - 2) * 32 + off \div 256, off % 256>>
                               ELSE <<224 + off \div 256, len - 9, off % 256>>),
                 !.pos = @ + len]

\* the finished stream is handed to lzfDecompress with the payload's length
EncDecode(ver) ==
    /\ ~enc.started
    /\ enc.pos = Len(enc.payload)
    /\ enc' = [enc EXCEPT !.started = TRUE]
    /\ lzf' = lzfDecompress(ver, enc.out, Len(enc.payload))

(***************************************************************************)
(* PCD decoders                                                            *)
(***************************************************************************)
(***************************************************************************)
(* JavaScript numbers, as far as the decoders use them:                    *)
(*   num        an integer v of magnitude below 2^31                       *)
(*   big        a finite number of magnitude 2^31 or more, of sign v       *)
(*   frac       a finite number that is not an integer, of magnitude below *)
(*              2^23 (a float32 with a fraction), v its bit pattern        *)
(*   nan, inf (of sign v), undefined                                       *)
(***************************************************************************)
Num(v) == [k |-> "num", v |-> v]
NaN == [k |-> "nan", v |-> 0]
Infinity == [k |-> "inf", v |-> 1]
NegInfinity == [k |-> "inf", v |-> -1]
Undefined == [k |-> "undefined", v |-> 0]
Big(sign) == [k |-> "big", v |-> sign]
Frac(bits) == [k |-> "frac", v |-> bits]

\* isNaN(n): undefined converts to NaN
isNaN(n) == n.k \in {"nan", "undefined"}

isFinite(n) == n.k \in {"num", "big", "frac"}

\* a < b for integers and infinities
NumLess(a, b) ==
    IF a.k = "num" /\ b.k = "num" THEN a.v < b.v
    ELSE IF a.k = "inf" THEN a.v < 0 /\ ~(b.k = "inf" /\ b.v < 0)
    ELSE b.v > 0

\* Math.abs(n) <= limit, for a limit between 2^23 and 2^31
AbsAtMost(n, limit) ==
    \/ n.k = "frac"
    \/ n.k = "num" /\ n.v <= limit /\ -n.v <= limit

\* a * b for integers; NaN when either is NaN or undefined
NumMul(a, b) ==
    IF a.k = "num" /\ b.k = "num" THEN Num(a.v * b.v) ELSE NaN

MathMin(a, b) ==
    IF isNaN(a) \/ isNaN(b) THEN NaN ELSE IF NumLess(b, a) THEN b ELSE a

MathMax(a, b) ==
    IF isNaN(a) \/ isNaN(b) THEN NaN ELSE IF NumLess(a, b) THEN b ELSE a

\* a + b
NumAdd(a, b) ==
    IF isNaN(a) \/ isNaN(b) THEN NaN
    ELSE IF a.k = "num" /\ b.k = "num" THEN Num(a.v + b.v)
    ELSE IF a.k = "inf" /\ b.k = "inf" THEN (IF a.v = b.v THEN a ELSE NaN)
    ELSE IF a.k = "inf" THEN a ELSE b

\* !n: undefined, NaN and 0 are falsy
Falsy(n) == isNaN(n) \/ (n.k = "num" /\ n.v = 0)

(***************************************************************************)
(* Text.  A line of a file is the sequence of its whitespace-separated     *)
(* tokens (the result of trim() and split(/\s+/)); an empty line is << >>. *)
(* The tokens are taken from a fixed vocabulary; the conversions below say *)
(* what JavaScript makes of each of them.                                  *)
(***************************************************************************)
\* the decimal numerals of the vocabulary and their values
DecimalValue ==
    ("0" :> 0) @@ ("1" :> 1) @@ ("2" :> 2) @@ ("3" :> 3) @@ ("4" :> 4)
    @@ ("5" :> 5) @@ ("-3" :> -3) @@ ("1e9" :> 1000000000)

\* parseFloat(String(token)); a token read past the end of a line is the
\* string "undefined"
parseFloat(token) ==
    IF token \in DOMAIN DecimalValue THEN Num(DecimalValue[token])
    ELSE IF token = "Infinity" THEN Infinity
    ELSE IF token = "-Infinity" THEN NegInfinity
    ELSE NaN

\* parseInt(token, 10): the leading integer digits, so "1e9" is 1 and
\* "Infinity" is NaN
parseInt(token) ==
    IF token = "1e9" THEN Num(1)
    ELSE IF token \in DOMAIN DecimalValue THEN Num(DecimalValue[token])
    ELSE NaN

\* Number(token): the empty string is 0
Number(token) == IF token = "" THEN Num(0) ELSE parseFloat(token)

\* String.prototype.toLowerCase on the keywords of the vocabulary
toLowerCase(token) ==
    CASE token \in {"VERSION", "Version"} -> "version"
      [] token \in {"FIELDS", "Fields"} -> "fields"
      [] token = "SIZE" -> "size"
      [] token = "TYPE" -> "type"
      [] token = "COUNT" -> "count"
      [] token = "WIDTH" -> "width"
      [] token = "HEIGHT" -> "height"
      [] token = "VIEWPOINT" -> "viewpoint"
      [] token \in {"POINTS", "Points"} -> "points"
      [] token \in {"DATA", "Data"} -> "data"
      [] token = "ASCII" -> "ascii"
      [] token = "BINARY" -> "binary"
      [] token = "BINARY_COMPRESSED" -> "binary_compressed"
      [] OTHER -> token

\* values[i], 0-based; undefined past the end
TokenAt(values, i) ==
    IF i >= 0 /\ i < Len(values) THEN values[i + 1] ELSE "undefined"

\* array.indexOf(x), 0-based; -1 when absent
indexOf(array, x) ==
    IF \E i \in 1..Len(array) : array[i] = x
    THEN (CHOOSE i \in 1..Len(array) :
              array[i] = x /\ \A j \in 1..(i - 1) : array[j] # x) - 1
    ELSE -1

\* valueParts.join(' '): the empty string when there are no parts; the
\* value is kept as its parts, "" standing for the empty string
ValueParts(line) == SubSeq(line, 2, Len(line))

\* value.split(/\s+/): [""] for the empty string
SplitValue(parts) == IF parts = << >> THEN <<"">> ELSE parts

\* the first token of the joined value, as parseInt and toLowerCase see it
FirstOf(parts) == IF parts = << >> THEN "" ELSE parts[1]

(***************************************************************************)
(* parsePCDHeader (the same text in both copies of the parser).  An        *)
(* optional string (version, viewpoint, data) is << >> when undefined and  *)
(* <<s>> when it is the string s.                                          *)
(***************************************************************************)
\* header.data = value.toLowerCase(), value being the joined parts
HeaderData(parts) ==
    IF parts = << >> THEN ""
    ELSE IF Len(parts) = 1 THEN toLowerCase(parts[1])
    ELSE "several words"

\* const header = { fields: [], size: [], type: [], count: [] }
EmptyHeader ==
    [version |-> << >>, fields |-> << >>, size |-> << >>, type |-> << >>,
     count |-> << >>, width |-> Undefined, height |-> Undefined,
     viewpoint |-> << >>, points |-> Undefined, data |-> << >>]

\* one pass through the body of the loop over the header's lines
HeaderLine(header, line) ==
    IF line = << >> \/ line[1] = "#" THEN header
    ELSE
      LET key == toLowerCase(line[1])
          parts == ValueParts(line)
          split == SplitValue(parts)
          numbers == [i \in 1..Len(split) |-> Number(split[i])]
      IN  CASE key = "version" -> [header EXCEPT !.version = <<parts>>]
            [] key = "fields" -> [header EXCEPT !.fields = split]
            [] key = "size" -> [header EXCEPT !.size = numbers]
            [] key = "type" -> [header EXCEPT !.type = split]
            [] key = "count" -> [header EXCEPT !.count = numbers]
            [] key = "width" ->
                 [header EXCEPT !.width = parseInt(FirstOf(parts))]
            [] key = "height" ->
                 [header EXCEPT !.height = parseInt(FirstOf(parts))]
            [] key = "viewpoint" -> [header EXCEPT !.viewpoint = <<parts>>]
            [] key = "points" ->
                 [header EXCEPT !.points = parseInt(FirstOf(parts))]
            [] key = "data" -> [header EXCEPT !.data = <<HeaderData(parts)>>]
            [] OTHER -> header

RECURSIVE HeaderLines(_, _, _)
HeaderLines(header, lines, i) ==
    IF i > Len(lines) THEN header
    ELSE HeaderLines(HeaderLine(header, lines[i]), lines, i + 1)

\* !header.version || !header.fields || !header.points || !header.data: an
\* array is never falsy, an undefined or empty string is
HeaderMissing(header) ==
    \/ header.version = << >> \/ header.version[1] = << >>
    \/ Falsy(header.points)
    \/ header.data = << >> \/ header.data[1] = ""

parsePCDHeader(lines) ==
    LET header == HeaderLines(EmptyHeader, lines, 1)
    IN  [threw |-> HeaderMissing(header), header |-> header]

(***************************************************************************)
(* parseASCIIData.  lines are the data lines; the result is the accepted   *)
(* points in order, or a throw.                                            *)
(***************************************************************************)
\* a colour as the decoders of pcdParser.ts compute it, its channels in
\* 255ths: from the packed field when there is one (Math.floor(rgb) & 0xff
\* and so on, 0 for NaN and the infinities), else from r, g and b, a value
\* v <= 1 being kept (255 v in 255ths) and a larger one divided by 255
Color(packed, rgb, r, g, b) ==
    LET byte(n, d) == IF n.k = "num" THEN Num((n.v \div d) % 256) ELSE Num(0)
        norm(n) == IF n.k = "num" /\ n.v <= 1 THEN Num(255 * n.v) ELSE n
    IN  IF packed
        THEN [r |-> byte(rgb, 1), g |-> byte(rgb, 256), b |-> byte(rgb, 65536)]
        ELSE [r |-> norm(r), g |-> norm(g), b |-> norm(b)]

\* the loop over the non-empty lines: a line is skipped when a coordinate
\* is NaN (both copies test isNaN only); the result is [points, colors].
\* "utils" reads a colour field only when the line is long enough for it,
\* "legacy" reads undefined past the end of the line
RECURSIVE AsciiPoints(_, _, _, _)
AsciiPoints(ver, lines, fields, i) ==
    IF i > Len(lines) THEN [points |-> << >>, colors |-> << >>]
    ELSE
      LET values == lines[i]
          at(name) == parseFloat(TokenAt(values, indexOf(fields, name)))
          has(name) == /\ indexOf(fields, name) # -1
                       /\ ver = "utils" => indexOf(fields, name) < Len(values)
          channel(name) ==
              IF has(name)
              THEN (IF indexOf(fields, name) < Len(values) THEN at(name)
                    ELSE Undefined)
              ELSE Num(1)
          hasColor == \E name \in {"r", "g", "b", "rgb"} :
                          indexOf(fields, name) # -1
          rest == AsciiPoints(ver, lines, fields, i + 1)
      IN  IF values = << >> \/ isNaN(at("x")) \/ isNaN(at("y"))
             \/ isNaN(at("z"))
          THEN rest
          ELSE [points |-> <<[x |-> at("x"), y |-> at("y"), z |-> at("z")]>>
                               \o rest.points,
                colors |-> IF hasColor
                           THEN <<Color(has("rgb"), at("rgb"), channel("r"),
                                        channel("g"), channel("b"))>>
                                    \o rest.colors
                           ELSE rest.colors]

\* new Array(n) throws a RangeError unless n is an integer in 0 .. 2^32 - 1
\* (a num is below 2^31)
ArrayLengthOk(n) == n.k = "num" /\ n.v >= 0

\* ver = "utils" preallocates new Array(header.points || lines.length) and
\* assigns by index (the array grows past its length when more points are
\* accepted and is cut to pointIndex when fewer are); "legacy" pushes
parseASCIIData(ver, lines, header) ==
    LET nonEmpty == SelectSeq(lines, LAMBDA l : l # << >>)
        expectedPoints == IF Falsy(header.points) THEN Num(Len(nonEmpty))
                          ELSE header.points
        xIndex == indexOf(header.fields, "x")
        yIndex == indexOf(header.fields, "y")
        zIndex == indexOf(header.fields, "z")
        failed(error) == [threw |-> TRUE, error |-> error, points |-> << >>,
                          colors |-> << >>, layout |-> << >>]
        r == AsciiPoints(ver, nonEmpty, header.fields, 1)
    IN  IF ver = "utils" /\ ~ArrayLengthOk(expectedPoints)
        THEN failed("Invalid array length")
        ELSE IF xIndex = -1 \/ yIndex = -1 \/ zIndex = -1
        THEN failed("PCD file must contain x, y, z fields")
        ELSE [threw |-> FALSE, error |-> "none", points |-> r.points,
              colors |-> r.colors, layout |-> << >>]

(***************************************************************************)
(* Bytes.  A buffer is [length, data] as in lzfDecompress: data are the    *)
(* leading bytes, every byte after them is 0.  DataView reads are          *)
(* little-endian.                                                          *)
(***************************************************************************)
Buffer(bytes) == [length |-> Len(bytes), data |-> bytes]

\* the low 31 bits of the 4 bytes at offset
Low31(buf, offset) ==
    ByteAt(buf, offset) + 256 * ByteAt(buf, offset + 1)
    + 65536 * ByteAt(buf, offset + 2)
    + 16777216 * (ByteAt(buf, offset + 3) % 128)

getUint32(buf, offset) ==
    IF ByteAt(buf, offset + 3) >= 128 THEN Big(1) ELSE Num(Low31(buf, offset))

getInt32(buf, offset) ==
    IF ByteAt(buf, offset + 3) >= 128
    THEN Num(Low31(buf, offset) - 2147483647 - 1)
    ELSE Num(Low31(buf, offset))

getUint16(buf, offset) == Num(ByteAt(buf, offset) + 256 * ByteAt(buf, offset + 1))

getInt16(buf, offset) ==
    LET u == ByteAt(buf, offset) + 256 * ByteAt(buf, offset + 1)
    IN  Num(IF u >= 32768 THEN u - 65536 ELSE u)

getUint8(buf, offset) == Num(ByteAt(buf, offset))

getInt8(buf, offset) ==
    LET u == ByteAt(buf, offset) IN Num(IF u >= 128 THEN u - 256 ELSE u)

RECURSIVE Pow2(_)
Pow2(n) == IF n = 0 THEN 1 ELSE 2 * Pow2(n - 1)

\* getFloat32: sign, 8 bits of exponent e, 23 bits of mantissa m; the value
\* is (2^23 + m) * 2^(e - 150) for 0 < e < 255
getFloat32(buf, offset) ==
    LET low == Low31(buf, offset)
        sign == IF ByteAt(buf, offset + 3) >= 128 THEN -1 ELSE 1
        e == low \div 8388608
        m == low % 8388608
        s == 8388608 + m
    IN  IF e = 255 THEN (IF m = 0 THEN [k |-> "inf", v |-> sign] ELSE NaN)
        ELSE IF e = 0 THEN (IF m = 0 THEN Num(0) ELSE Frac(low))
        ELSE IF e >= 158 THEN Big(sign)
        ELSE IF e >= 150 THEN Num(sign * s * Pow2(e - 150))
        ELSE IF e >= 127 /\ s % Pow2(150 - e) = 0
        THEN Num(sign * (s \div Pow2(150 - e)))
        ELSE Frac(low)

\* readField(dataView, offset, type, size, maxOffset); size is a number of
\* the header (undefined or NaN matches no case); 8-byte fields are outside
\* the files of this model
readField(buf, offset, type, size, maxOffset) ==
    LET got(value) == [threw |-> FALSE, value |-> value]
        n == size.v
    IN  IF size.k # "num" THEN [threw |-> TRUE, value |-> NaN]
        ELSE IF offset < 0 \/ offset + n > maxOffset
        THEN [threw |-> TRUE, value |-> NaN]
        ELSE CASE type = "I" /\ n = 1 -> got(getInt8(buf, offset))
               [] type = "I" /\ n = 2 -> got(getInt16(buf, offset))
               [] type = "I" /\ n = 4 -> got(getInt32(buf, offset))
               [] type = "U" /\ n = 1 -> got(getUint8(buf, offset))
               [] type = "U" /\ n = 2 -> got(getUint16(buf, offset))
               [] type = "U" /\ n = 4 -> got(getUint32(buf, offset))
               [] type = "F" /\ n = 4 -> got(getFloat32(buf, offset))
               [] OTHER -> [threw |-> TRUE, value |-> NaN]

(***************************************************************************)
(* parseBinaryData(buffer, header, startOffset) on the bytes from          *)
(* startOffset on.                                                         *)
(***************************************************************************)
\* array[i], 0-based, of an array of numbers
NumberAt(array, i) ==
    IF i >= 0 /\ i < Len(array) THEN array[i + 1] ELSE Undefined

\* header.size[i] * (header.count[i] || 1) in utils,
\* header.size[i] * header.count[i] in legacy
FieldSize(ver, header, i) ==
    LET count == NumberAt(header.count, i)
    IN  NumMul(NumberAt(header.size, i),
               IF ver = "utils" /\ Falsy(count) THEN Num(1) ELSE count)

\* fieldOffsets[i]: the sizes of the fields before i, NaN once one is NaN
RECURSIVE FieldOffset(_, _, _)
FieldOffset(ver, header, i) ==
    IF i = 0 THEN Num(0)
    ELSE NumAdd(FieldOffset(ver, header, i - 1), FieldSize(ver, header, i - 1))

\* the validity test of a point: utils wants finite coordinates of
\* magnitude at most 1e8, legacy only tests isNaN
MaxCoordinate == 100000000

ValidCoordinate(ver, n) ==
    /\ ~isNaN(n)
    /\ ver = "utils" => (isFinite(n) /\ AbsAtMost(n, MaxCoordinate))

\* the loop over i < numPoints, the point i at offset i * pointSize; the
\* result is [threw, points, colors, examined, invalidPoints], examined
\* counting the passes that got past the break ("legacy" has no counter of
\* its own for the points it skips)
RECURSIVE BinaryPoints(_, _, _, _, _, _)
BinaryPoints(ver, buf, header, numPoints, pointSize, i) ==
    LET availableBytes == buf.length
        offset == i * pointSize
        index(name) == indexOf(header.fields, name)
        at(ix) == offset + FieldOffset(ver, header, ix).v
        size(ix) == NumberAt(header.size, ix)
        over(ix) == size(ix).k = "num" /\ at(ix) + size(ix).v > availableBytes
        read(name) == readField(buf, at(index(name)),
                                TokenAt(header.type, index(name)),
                                size(index(name)), availableBytes)
        x == read("x")
        y == read("y")
        z == read("z")
        colorFields == {name \in {"r", "g", "b", "rgb"} : index(name) # -1}
        \* the fields the colour of this point is read from
        colorReads == IF "rgb" \in colorFields THEN {"rgb"} ELSE colorFields
        channel(name) == IF name \in colorFields THEN read(name).value
                         ELSE Num(1)
        rest == BinaryPoints(ver, buf, header, numPoints, pointSize, i + 1)
        threw == [threw |-> TRUE, points |-> << >>, colors |-> << >>,
                  examined |-> 0, invalidPoints |-> 0]
    IN  IF i >= numPoints \/ offset + pointSize > availableBytes
        THEN [threw |-> FALSE, points |-> << >>, colors |-> << >>,
              examined |-> 0, invalidPoints |-> 0]
        ELSE IF ver = "utils" /\ (over(index("x")) \/ over(index("y"))
                                  \/ over(index("z")))
        THEN [rest EXCEPT !.examined = @ + 1]
        ELSE IF x.threw \/ y.threw \/ z.threw THEN threw
        ELSE IF ~(/\ ValidCoordinate(ver, x.value)
                  /\ ValidCoordinate(ver, y.value)
                  /\ ValidCoordinate(ver, z.value))
        THEN [rest EXCEPT !.examined = @ + 1, !.invalidPoints = @ + 1]
        ELSE IF (\E name \in colorReads : read(name).threw) \/ rest.threw
        THEN threw
        ELSE [threw |-> FALSE,
              points |-> <<[x |-> x.value, y |-> y.value, z |-> z.value]>>
                             \o rest.points,
              colors |-> IF colorFields = {} THEN rest.colors
                         ELSE <<Color("rgb" \in colorFields, channel("rgb"),
                                      channel("r"), channel("g"),
                                      channel("b"))>> \o rest.colors,
              examined |-> rest.examined + 1,
              invalidPoints |-> rest.invalidPoints]

\* Math.floor(availableBytes / pointSize) alone: every whole record of the
\* body, whatever POINTS says
NumPointsUncapped(points, availableBytes, pointSize) ==
    IF pointSize = 0 THEN points ELSE availableBytes \div pointSize

\* Math.min(header.points, Math.floor(availableBytes / pointSize)): the
\* quotient is Infinity for a point size of 0
NumPoints(points, availableBytes, pointSize) ==
    LET fits == IF pointSize = 0 THEN points ELSE availableBytes \div pointSize
    IN  IF points < fits THEN points ELSE fits

\* the result carries, besides the points and colours, what the call
\* computed on its way: the field offsets, the point size, numPoints and the
\* counters of the loop (layout is << >> when the call threw before them)
parseBinaryData(ver, buf, header) ==
    LET xIndex == indexOf(header.fields, "x")
        yIndex == indexOf(header.fields, "y")
        zIndex == indexOf(header.fields, "z")
        pointSize == FieldOffset(ver, header, Len(header.fields))
        fieldOffsets == [i \in 1..Len(header.fields) |->
                            FieldOffset(ver, header, i - 1)]
        layout(r) == <<[fieldOffsets |-> fieldOffsets, pointSize |-> pointSize,
                        availableBytes |-> buf.length,
                        examined |-> r.examined,
                        validPoints |-> Len(r.points),
                        invalidPoints |-> r.invalidPoints]>>
        none == [points |-> << >>, examined |-> 0, invalidPoints |-> 0]
        failed(error, l) == [threw |-> TRUE, error |-> error, points |-> << >>,
                             colors |-> << >>, layout |-> l]
    IN  IF 0 >= buf.length THEN failed("Invalid start offset", << >>)
        ELSE IF xIndex = -1 \/ yIndex = -1 \/ zIndex = -1
        THEN failed("PCD file must contain x, y, z fields", << >>)
        ELSE IF ver = "utils" /\ pointSize.k = "num" /\ pointSize.v = 0
        THEN failed("Invalid point size", layout(none))
        ELSE IF pointSize.k # "num" \/ header.points.k # "num"
        THEN [threw |-> FALSE, error |-> "none", points |-> << >>,
              colors |-> << >>, layout |-> layout(none)]
        ELSE LET r == BinaryPoints(ver, buf, header,
                                   NumPoints(header.points.v, buf.length,
                                             pointSize.v),
                                   pointSize.v, 0)
             IN  IF r.threw THEN failed("readField", layout(none))
                 ELSE [threw |-> FALSE, error |-> "none", points |-> r.points,
                       colors |-> r.colors, layout |-> layout(r)]

(***************************************************************************)
(* parseBinaryCompressedData, up to the call of lzfDecompress.             *)
(***************************************************************************)
MaxUncompressedSize == 1000000000

\* a > n for a number read by getUint32 and an integer n
UintAbove(a, n) == a.k = "big" \/ a.v > n

\* the same without the ceiling on uncompressedSize
CompressedSizesUnbounded(compressedSize, uncompressedSize, availableBytes) ==
    \/ compressedSize = Num(0)
    \/ UintAbove(compressedSize, availableBytes - 8)
    \/ uncompressedSize = Num(0)

\* compressedSize === 0 || compressedSize > availableBytes - offset, or
\* uncompressedSize === 0 || uncompressedSize > 1000000000
CompressedSizesInvalid(compressedSize, uncompressedSize, availableBytes) ==
    \/ compressedSize = Num(0)
    \/ UintAbove(compressedSize, availableBytes - 8)
    \/ uncompressedSize = Num(0)
    \/ UintAbove(uncompressedSize, MaxUncompressedSize)

\* the checks before decompression, on the bytes from startOffset on; when
\* they pass, the arguments of lzfDecompress
CompressedHeader(bytes) ==
    LET buf == Buffer(bytes)
        availableBytes == Len(bytes)
        compressedSize == getUint32(buf, 0)
        uncompressedSize == getUint32(buf, 4)
        failed(error) == [threw |-> TRUE, error |-> error,
                          compressedData |-> << >>, uncompressedSize |-> 0]
    IN  IF availableBytes <= 0 THEN failed("Invalid start offset")
        ELSE IF availableBytes < 8
        THEN failed("Not enough data to read compression header")
        ELSE IF CompressedSizesInvalid(compressedSize, uncompressedSize,
                                       availableBytes)
        THEN failed("Invalid compressed or uncompressed size")
        ELSE [threw |-> FALSE, error |-> "none",
              compressedData |-> SubSeq(bytes, 9, 8 + compressedSize.v),
              uncompressedSize |-> uncompressedSize.v]

(***************************************************************************)
(* parsePCDASCII of the worker.  text is every line of the file.           *)
(***************************************************************************)
\* Math.fround on an integer: round to 24 significant bits, ties to even
RECURSIVE FroundNat(_, _)
FroundNat(v, p) ==
    IF v < 16777216 * p
    THEN LET q == v \div p
             r == v % p
         IN  IF 2 * r < p \/ (2 * r = p /\ q % 2 = 0) THEN q * p
             ELSE (q + 1) * p
    ELSE FroundNat(v, 2 * p)

\* the value a Float32Array element holds after n is stored in it
Fround(n) ==
    IF n.k # "num" THEN n
    ELSE IF n.v < 0 THEN Num(-FroundNat(-n.v, 1)) ELSE Num(FroundNat(n.v, 1))

\* the header scan: [headerEnd, pointCount, hasColor]; headerEnd = -1 when
\* no line is exactly "DATA ascii"
RECURSIVE WorkerHeader(_, _, _, _)
WorkerHeader(text, i, pointCount, hasColor) ==
    IF i > Len(text)
    THEN [headerEnd |-> -1, pointCount |-> pointCount, hasColor |-> hasColor]
    ELSE
      LET line == text[i] IN
      IF line = << >> THEN WorkerHeader(text, i + 1, pointCount, hasColor)
      ELSE IF line[1] = "POINTS"
      THEN WorkerHeader(text, i + 1,
                        IF Len(line) >= 2 THEN parseInt(line[2]) ELSE pointCount,
                        hasColor)
      ELSE IF line[1] = "FIELDS"
      THEN WorkerHeader(text, i + 1, pointCount,
                        LET fields == Range(Tail(line))
                        IN  "rgb" \in fields \/ {"r", "g", "b"} \subseteq fields)
      ELSE IF line = <<"DATA", "ascii">>
      THEN [headerEnd |-> i, pointCount |-> pointCount, hasColor |-> hasColor]
      ELSE WorkerHeader(text, i + 1, pointCount, hasColor)

\* line.split(/\s+/).map(parseFloat).filter(v => !isNaN(v))
WorkerValues(line) ==
    SelectSeq([j \in 1..Len(line) |-> parseFloat(line[j])],
              LAMBDA v : ~isNaN(v))

\* the three bytes of colours a point gets, as the Uint8Array holds them:
\* the 4th to 6th numbers of the line times 255 when there are 6, the bytes
\* of the 4th (rgb >> 16, rgb >> 8, rgb) when there are 4, else white
WorkerColor(hasColor, values) ==
    LET scaled(n) == IF n.k = "num" THEN Num(((n.v % 256) * 255) % 256)
                     ELSE Num(0)
        byte(n, d) == IF n.k = "num" THEN Num((n.v \div d) % 256) ELSE Num(0)
    IN  IF hasColor /\ Len(values) >= 6
        THEN [r |-> scaled(values[4]), g |-> scaled(values[5]),
              b |-> scaled(values[6])]
        ELSE IF hasColor /\ Len(values) >= 4
        THEN [r |-> byte(values[4], 65536), g |-> byte(values[4], 256),
              b |-> byte(values[4], 1)]
        ELSE [r |-> Num(255), g |-> Num(255), b |-> Num(255)]

\* the loop over the lines from headerEnd on (i is 0-based as in the source);
\* acc = [points, colors, min, max]
RECURSIVE WorkerPoints(_, _, _, _, _, _, _)
WorkerPoints(text, headerEnd, hasColor, step, finalPointCount, i, acc) ==
    IF ~(i < Len(text) /\ Len(acc.points) < finalPointCount) THEN acc
    ELSE
      LET line == text[i + 1]
          values == WorkerValues(line)
          next(a) == WorkerPoints(text, headerEnd, hasColor, step,
                                  finalPointCount, i + 1, a)
      IN  IF line = << >> \/ line[1] = "#" THEN next(acc)
          ELSE IF (i - headerEnd) % step # 0 THEN next(acc)
          ELSE IF Len(values) < 3 THEN next(acc)
          ELSE next([points |-> Append(acc.points,
                                       [x |-> Fround(values[1]),
                                        y |-> Fround(values[2]),
                                        z |-> Fround(values[3])]),
                     colors |-> Append(acc.colors,
                                       WorkerColor(hasColor, values)),
                     min |-> [x |-> MathMin(acc.min.x, values[1]),
                              y |-> MathMin(acc.min.y, values[2]),
                              z |-> MathMin(acc.min.z, values[3])],
                     max |-> [x |-> MathMax(acc.max.x, values[1]),
                              y |-> MathMax(acc.max.y, values[2]),
                              z |-> MathMax(acc.max.z, values[3])]])

\* minX === Infinity ? 0 : minX, and the like
FinalBound(n, unset) == IF n = unset THEN Num(0) ELSE n

\* options: maxPoints (0: not given) and downsampleRatio as the fraction
\* ratio[1] / ratio[2] (<<1, 1>>: not given)
parsePCDASCII(text, opts) ==
    LET h == WorkerHeader(text, 1, Num(0), FALSE)
        pointCount == h.pointCount
        maxPoints == IF opts.maxPoints = 0 THEN pointCount
                     ELSE Num(opts.maxPoints)
        actualPointCount == MathMin(pointCount, maxPoints)
        \* Math.floor(actualPointCount * downsampleRatio); a Float32Array of
        \* NaN or negative length has no room (negative lengths throw)
        finalPointCount ==
            IF actualPointCount.k = "num"
            THEN (actualPointCount.v * opts.ratio[1]) \div opts.ratio[2]
            ELSE 0
        step == IF opts.ratio[2] \div opts.ratio[1] > 1
                THEN opts.ratio[2] \div opts.ratio[1] ELSE 1
        unset == [x |-> Infinity, y |-> Infinity, z |-> Infinity]
        unsetMax == [x |-> NegInfinity, y |-> NegInfinity, z |-> NegInfinity]
        acc == WorkerPoints(text, h.headerEnd, h.hasColor, step,
                            finalPointCount, h.headerEnd,
                            [points |-> << >>, colors |-> << >>,
                             min |-> unset, max |-> unsetMax])
        final(p, u) == [x |-> FinalBound(p.x, u), y |-> FinalBound(p.y, u),
                        z |-> FinalBound(p.z, u)]
    IN  IF h.headerEnd = -1 \/ pointCount = Num(0)
        THEN [threw |-> TRUE, error |-> "Invalid PCD file format",
              points |-> << >>, colors |-> << >>, bounds |-> << >>]
        ELSE IF finalPointCount < 0
        THEN [threw |-> TRUE, error |-> "Invalid typed array length",
              points |-> << >>, colors |-> << >>, bounds |-> << >>]
        ELSE [threw |-> FALSE, error |-> "none", points |-> acc.points,
              colors |-> acc.colors,
              bounds |-> <<[min |-> final(acc.min, Infinity),
                            max |-> final(acc.max, NegInfinity)]>>]

(***************************************************************************)
(* Files.  A file is its text lines, each ended by a newline, followed by  *)
(* its bytes: an ASCII file has its points in the lines after the DATA     *)
(* line and no bytes, a binary file ends its lines with the DATA line.     *)
(***************************************************************************)
VersionLines == {<< >>, <<<<"VERSION", "0.7">>>>}

FieldsLines ==
    {<< >>, <<<<"FIELDS", "x", "y", "z">>>>, <<<<"FIELDS", "y", "x", "z">>>>,
     <<<<"FIELDS", "x", "y">>>>, <<<<"FIELDS", "x", "y", "z", "rgb">>>>}

\* three one-byte unsigned fields, or three float32 fields
LayoutU1 ==
    <<<<"SIZE", "1", "1", "1">>, <<"TYPE", "U", "U", "U">>,
      <<"COUNT", "1", "1", "1">>>>

LayoutF4 ==
    <<<<"SIZE", "4", "4", "4">>, <<"TYPE", "F", "F", "F">>,
      <<"COUNT", "1", "1", "1">>>>

\* layouts of one- and two-byte unsigned fields: LayoutU1, four fields
\* packed at offsets 0, 2, 4 and 5, and three fields the second of which
\* is declared with a count of 0
ByteLayouts ==
    {LayoutU1,
     <<<<"SIZE", "1", "2", "1", "1">>, <<"TYPE", "U", "U", "U", "U">>,
       <<"COUNT", "2", "1", "1", "1">>>>,
     <<<<"SIZE", "1", "1", "1">>, <<"TYPE", "U", "U", "U">>,
       <<"COUNT", "1", "0", "1">>>>}

PointsLines == {<< >>, <<<<"POINTS", "1">>>>, <<<<"POINTS", "3">>>>}

\* the lines of points of an ASCII file
DataLines ==
    {<<"1", "2", "5">>, <<"5", "1", "-3">>, <<"abc", "1", "2", "5">>,
     <<"Infinity", "1", "2">>, <<"1e9", "1", "2">>, <<"NaN", "1", "2">>,
     <<"2", "1", "5", "3">>}

\* float32 values, little-endian: 1, 1e9, +Infinity, NaN
FloatWords ==
    {<<0, 0, 128, 63>>, <<40, 107, 110, 78>>, <<0, 0, 128, 127>>,
     <<0, 0, 192, 127>>}

\* a float32 point: x from FloatWords, y = z = 1
FloatPoints == {w \o <<0, 0, 128, 63, 0, 0, 128, 63>> : w \in FloatWords}

RECURSIVE Concat(_)
Concat(seqs) == IF seqs = << >> THEN << >> ELSE Head(seqs) \o Concat(Tail(seqs))

\* the bytes of a binary file of float32 points, and of one-byte points
BodiesF4 == {Concat(q) : q \in SeqsUpTo(FloatPoints, MaxBinaryPoints)}

BodiesU1 == {<< >>, <<1, 2>>, <<1, 2, 5>>, <<1, 2, 5, 5, 1, 2>>}

\* n as the 4 bytes of a little-endian uint32
Uint32Bytes(n) ==
    <<n % 256, (n \div 256) % 256, (n \div 65536) % 256, n \div 16777216>>

\* the two length words of a binary_compressed body; 255 255 255 255 is
\* 2^32 - 1
CompressedSizeWords == {Uint32Bytes(0), Uint32Bytes(4), Uint32Bytes(6),
                        <<255, 255, 255, 255>>}

UncompressedSizeWords ==
    {Uint32Bytes(0), Uint32Bytes(3), Uint32Bytes(6),
     Uint32Bytes(MaxUncompressedSize), Uint32Bytes(MaxUncompressedSize + 1),
     <<255, 255, 255, 255>>}

\* LZF streams: a literal run of 3 bytes, and the same followed by a
\* back-reference of length 3 to its start
Streams == {<<2, 1, 2, 5>>, <<2, 1, 2, 5, 32, 2>>}

BodiesCompressed ==
    {<<1, 2, 5>>}
    \cup {c \o u \o s : c \in CompressedSizeWords, u \in UncompressedSizeWords,
                        s \in Streams}

HeaderLinesOf(v, f, layout, p, d) == v \o f \o layout \o p \o d

TextFiles ==
    {[lines |-> HeaderLinesOf(v, f, LayoutU1, p, d) \o text, bytes |-> << >>] :
        v \in VersionLines, f \in FieldsLines, p \in PointsLines,
        d \in {<< >>, <<<<"DATA", "ascii">>>>},
        text \in SeqsUpTo(DataLines, MaxLines)}

BinaryFiles ==
    {[lines |-> HeaderLinesOf(v, f, l, p, <<<<"DATA", "binary">>>>),
      bytes |-> b] :
        v \in VersionLines, f \in FieldsLines, l \in ByteLayouts,
        p \in PointsLines, b \in BodiesU1}
    \cup
    {[lines |-> HeaderLinesOf(v, f, LayoutF4, p, <<<<"DATA", "binary">>>>),
      bytes |-> b] :
        v \in VersionLines, f \in FieldsLines, p \in PointsLines,
        b \in BodiesF4}

CompressedFiles ==
    {[lines |-> HeaderLinesOf(v, f, LayoutU1, p,
                              <<<<"DATA", "binary_compressed">>>>),
      bytes |-> b] :
        v \in VersionLines, f \in FieldsLines, p \in PointsLines,
        b \in BodiesCompressed}

\* a header line with its key, or the value of its DATA line, in another
\* letter case
Recased(line, casing) ==
    IF casing = "data" /\ line[1] = "DATA" THEN <<"data">> \o Tail(line)
    ELSE IF casing = "ASCII" /\ line[1] = "DATA" THEN <<"DATA", "ASCII">>
    ELSE IF casing = "points" /\ line[1] = "POINTS"
    THEN <<"points">> \o Tail(line)
    ELSE IF casing = "version" /\ line[1] = "VERSION"
    THEN <<"version">> \o Tail(line)
    ELSE IF casing = "fields" /\ line[1] = "FIELDS"
    THEN <<"fields">> \o Tail(line)
    ELSE line

\* ASCII files with a complete header, one line of which is written in
\* lower case (its key) or in upper case (the value of DATA)
RecasedFiles ==
    {[lines |->
        [i \in 1..7 |->
            Recased(HeaderLinesOf(<<<<"VERSION", "0.7">>>>,
                                  <<<<"FIELDS", "x", "y", "z">>>>, LayoutU1, p,
                                  <<<<"DATA", "ascii">>>>)[i], casing)]
        \o text,
      bytes |-> << >>] :
        casing \in {"data", "ASCII", "points", "version", "fields"},
        p \in PointsLines \ {<< >>},
        text \in SeqsUpTo(DataLines, MaxLines)}

\* the options of the worker: maxPoints (0: not given), downsampleRatio
WorkerOptions == [maxPoints : {0, 1}, ratio : {<<1, 1>>, <<1, 2>>}]

NoOptions == [maxPoints |-> 0, ratio |-> <<1, 1>>]

(***************************************************************************)
(* The entry points: parsePCDFile of RvizViewer/utils/pcdParser.ts         *)
(* ("utils") and of the older copy ("legacy"), and parsePCD of the worker  *)
(* ("worker").  dec.stage is the position in the call; the call ends       *)
(* "resolved" with points, colors (<< >> when undefined) and bounds (<< >>  *)
(* when the result has none) or "rejected" with an error; layout is what   *)
(* parseBinaryData computed, when it ran.                                  *)
(***************************************************************************)
DecStart(entry, opts, file) ==
    [entry |-> entry, options |-> opts, file |-> file, stage |-> "start",
     header |-> EmptyHeader, points |-> << >>, colors |-> << >>,
     bounds |-> << >>, layout |-> << >>, error |-> "none"]

DecIdle ==
    dec = [DecStart("none", NoOptions, [lines |-> << >>, bytes |-> << >>])
               EXCEPT !.stage = "idle"]

DecInit ==
    \/ \E entry \in LzfVersions,
          file \in TextFiles \cup RecasedFiles \cup BinaryFiles
                    \cup CompressedFiles :
          dec = DecStart(entry, NoOptions, file)
    \/ \E opts \in WorkerOptions, file \in TextFiles \cup RecasedFiles :
          dec = DecStart("worker", opts, file)

Rejected(d, error) == [d EXCEPT !.stage = "rejected", !.error = error]

\* the end of parsePCDFile, r being the result of the data parser
Settle(d, r) ==
    IF r.threw THEN [Rejected(d, r.error) EXCEPT !.layout = r.layout]
    ELSE IF Len(r.points) = 0
    THEN [Rejected(d, "No valid points found in PCD file")
             EXCEPT !.layout = r.layout]
    ELSE [d EXCEPT !.stage = "resolved", !.points = r.points,
                   !.colors = r.colors, !.layout = r.layout]

\* text.indexOf('DATA'): the 1-based number of the first line with DATA in
\* it (in the vocabulary, the token DATA), 0 when there is none
DataLineOf(lines) ==
    IF \E i \in 1..Len(lines) : "DATA" \in Range(lines[i])
    THEN CHOOSE i \in 1..Len(lines) :
            /\ "DATA" \in Range(lines[i])
            /\ \A j \in 1..(i - 1) : "DATA" \notin Range(lines[j])
    ELSE 0

\* what parsePCDFile makes of the decode d from reader.onload to the choice
\* of the data parser
HeaderStage(d) ==
    LET lines == d.file.lines
        dataLine == DataLineOf(lines)
        parsed == parsePCDHeader(SubSeq(lines, 1, dataLine))
        data == parsed.header.data[1]
    IN  IF dataLine = 0
        THEN Rejected(d, "Invalid PCD file: DATA field not found")
        ELSE IF parsed.threw
        THEN Rejected(d, "Invalid PCD header: missing required fields")
        ELSE IF dataLine = Len(lines) /\ d.file.bytes = << >>
        THEN Rejected(d, "Invalid data start offset")
        ELSE [d EXCEPT
                !.header = parsed.header,
                !.stage = IF data = "binary_compressed" THEN "compressed"
                          ELSE IF data = "binary" THEN "binary"
                          ELSE "ascii"]

\* parsePCDFile, from reader.onload to the choice of the data parser
parsePCDFileHeader ==
    /\ dec.stage = "start"
    /\ dec.entry \in LzfVersions
    /\ dec' = HeaderStage(dec)
    /\ UNCHANGED lzf

\* what the ASCII branch makes of the decode d:
\* text.substring(dataLineEnd + 1) to parseASCIIData
AsciiStage(d) ==
    LET lines == d.file.lines
        dataText == SubSeq(lines, DataLineOf(lines) + 1, Len(lines))
    IN  Settle(d, parseASCIIData(d.entry, dataText, d.header))

\* the ASCII branch
parsePCDFileAscii ==
    /\ dec.stage = "ascii"
    /\ dec' = AsciiStage(dec)
    /\ UNCHANGED lzf

\* the binary branch
parsePCDFileBinary ==
    /\ dec.stage = "binary"
    /\ dec' = Settle(dec, parseBinaryData(dec.entry, Buffer(dec.file.bytes),
                                          dec.header))
    /\ UNCHANGED lzf

\* the binary_compressed branch, up to the call of lzfDecompress
parseBinaryCompressedData ==
    /\ dec.stage = "compressed"
    /\ LET h == CompressedHeader(dec.file.bytes) IN
         IF h.threw
         THEN dec' = Rejected(dec, h.error) /\ UNCHANGED lzf
         ELSE /\ dec' = [dec EXCEPT !.stage = "decompress"]
              /\ lzf' = LzfStart(dec.entry, h.compressedData,
                                 h.uncompressedSize)

\* lzfDecompress running inside parseBinaryCompressedData
DecompressIterate == dec.stage = "decompress" /\ LzfIterate /\ UNCHANGED dec

DecompressFinish == dec.stage = "decompress" /\ LzfFinish /\ UNCHANGED dec

\* after lzfDecompress: a throw is rethrown, a buffer goes to parseBinaryData
parseDecompressed ==
    /\ dec.stage = "decompress"
    /\ lzf.status \in {"returned", "threw"}
    /\ dec' = IF lzf.status = "threw"
              THEN Rejected(dec, "Failed to decompress data")
              ELSE Settle(dec, parseBinaryData(dec.entry, lzf.decompressed,
                                               dec.header))
    /\ UNCHANGED lzf

\* parsePCD of the worker: the whole text goes to parsePCDASCII, whose
\* result is returned as it is
WorkerStage(d) ==
    LET r == parsePCDASCII(d.file.lines, d.options) IN
    IF r.threw THEN Rejected(d, r.error)
    ELSE [d EXCEPT !.stage = "resolved", !.points = r.points,
                   !.colors = r.colors, !.bounds = r.bounds]

parsePCD ==
    /\ dec.stage = "start"
    /\ dec.entry = "worker"
    /\ dec' = WorkerStage(dec)
    /\ UNCHANGED lzf

(***************************************************************************)
(* RvizViewer/utils/octree.ts.  A point array is a sequence of points; a   *)
(* node holds points and colours by their index in the arrays handed to    *)
(* buildOctree (the objects themselves in the source).  Coordinates are    *)
(* multiples of 8 and maxDepth is at most 2, so that every centre and      *)
(* every size the build computes is an integer.  An optional array is      *)
(* << >> when undefined and <<a>> when it is the array a.                  *)
(***************************************************************************)
PartPoints ==
    {[x |-> 0, y |-> 0, z |-> 0], [x |-> 8, y |-> 0, z |-> 0],
     [x |-> 8, y |-> 8, z |-> 8], [x |-> 16, y |-> 16, z |-> 16],
     [x |-> -8, y |-> 8, z |-> 0]}

\* the options of buildOctree
OctreeOptions ==
    [maxPointsPerNode : {0, 1, 2}, maxDepth : {-1, 0, 1, 2},
     minNodeSize : {0, 1, 12}]

calculateBounds(points) ==
    LET least(c) == CHOOSE m \in {points[i][c] : i \in 1..Len(points)} :
                        \A i \in 1..Len(points) : m <= points[i][c]
        most(c) == CHOOSE m \in {points[i][c] : i \in 1..Len(points)} :
                       \A i \in 1..Len(points) : m >= points[i][c]
        extent(c) == most(c) - least(c)
        widest == CHOOSE e \in {extent("x"), extent("y"), extent("z")} :
                      \A c \in {"x", "y", "z"} : e >= extent(c)
        zero == [x |-> 0, y |-> 0, z |-> 0]
    IN  IF points = << >>
        THEN [min |-> zero, max |-> zero, center |-> zero, size |-> 0]
        ELSE [min |-> [c \in {"x", "y", "z"} |-> least(c)],
              max |-> [c \in {"x", "y", "z"} |-> most(c)],
              center |-> [c \in {"x", "y", "z"} |->
                             (least(c) + most(c)) \div 2],
              size |-> widest]

\* index & bit, bit being 1, 2 or 4
BitSet(index, bit) == (index \div bit) % 2 = 1

calculateChildBounds(parentBounds, index) ==
    LET center == parentBounds.center
        bit == [x |-> 1, y |-> 2, z |-> 4]
        min == [c \in {"x", "y", "z"} |->
                   IF BitSet(index, bit[c]) THEN center[c]
                   ELSE parentBounds.min[c]]
        max == [c \in {"x", "y", "z"} |->
                   IF BitSet(index, bit[c]) THEN parentBounds.max[c]
                   ELSE center[c]]
    IN  [min |-> min, max |-> max,
         center |-> [c \in {"x", "y", "z"} |-> (min[c] + max[c]) \div 2],
         size |-> parentBounds.size \div 2]

\* a node is split only when it is not yet at maxDepth - 1
StopSplittingEarly(count, level, size, opts) ==
    \/ count <= opts.maxPointsPerNode
    \/ level >= opts.maxDepth - 1
    \/ size < opts.minNodeSize

\* a node is split whatever the number of its points
StopSplittingIgnoringCount(count, level, size, opts) ==
    level >= opts.maxDepth \/ size < opts.minNodeSize

\* a node at maxDepth is still split
StopSplittingLate(count, level, size, opts) ==
    \/ count <= opts.maxPointsPerNode
    \/ level > opts.maxDepth
    \/ size < opts.minNodeSize

\* the test that ends the recursion at a node
StopSplitting(count, level, size, opts) ==
    \/ count <= opts.maxPointsPerNode
    \/ level >= opts.maxDepth
    \/ size < opts.minNodeSize

\* a point goes to every octant that agrees with it on the x side alone
ChildPointsByX(all, points, center, i) ==
    SelectSeq(points,
              LAMBDA h : (all[h].x >= center.x) <=> BitSet(i, 1))

\* childPoints[i] once the points were distributed: those of octant i, the
\* octant of a point having bit 1, 2, 4 set when x, y, z is not below the
\* centre
ChildPoints(all, points, center, i) ==
    SelectSeq(points,
              LAMBDA h : i = (IF all[h].x >= center.x THEN 1 ELSE 0)
                             + (IF all[h].y >= center.y THEN 2 ELSE 0)
                             + (IF all[h].z >= center.z THEN 4 ELSE 0))

\* buildOctreeRecursive(node, points, colors, level, ...): the node as the
\* call leaves it.  all are the points handed to buildOctree; points and
\* colors are the indices of the points and colours of this node; node is
\* the object the caller made (its bounds and its colors field)
RECURSIVE buildOctreeRecursive(_, _, _, _, _, _)
buildOctreeRecursive(node, all, points, colors, level, opts) ==
    LET center == node.bounds.center
        childPoints(i) == ChildPoints(all, points, center, i)
        childColors(i) == ChildPoints(all, colors, center, i)
        occupied == SelectSeq(<<0, 1, 2, 3, 4, 5, 6, 7>>,
                              LAMBDA i : childPoints(i) # << >>)
        childNode(i) ==
            [bounds |-> calculateChildBounds(node.bounds, i),
             points |-> << >>,
             colors |-> IF colors # << >> THEN <<<< >>>> ELSE << >>,
             children |-> << >>, level |-> level + 1, pointCount |-> 0]
    IN  IF StopSplitting(Len(points), level, node.bounds.size, opts)
        THEN [node EXCEPT !.level = level, !.pointCount = Len(points),
                          !.points = points,
                          !.colors = IF colors # << >> THEN <<colors>> ELSE @]
        ELSE [node EXCEPT
                !.level = level, !.pointCount = Len(points),
                !.children =
                    <<[k \in 1..Len(occupied) |->
                         buildOctreeRecursive(childNode(occupied[k]), all,
                                              childPoints(occupied[k]),
                                              childColors(occupied[k]),
                                              level + 1, opts)]>>]

\* buildOctree(points, colors, options); colors is undefined or holds a
\* colour for every point
buildOctree(points, hasColors, opts) ==
    buildOctreeRecursive(
        [bounds |-> calculateBounds(points), points |-> << >>,
         colors |-> IF hasColors THEN <<<< >>>> ELSE << >>,
         children |-> << >>, level |-> 0, pointCount |-> 0],
        points, [i \in 1..Len(points) |-> i],
        IF hasColors THEN [i \in 1..Len(points) |-> i] ELSE << >>,
        0, opts)

(***************************************************************************)
(* voxelDownsample, of octree.ts ("utils") and of the worker.  The         *)
(* positions only: the colours the two versions average along are left     *)
(* out.  A position of the result is the fraction n / d the code arrives   *)
(* at, not reduced and not rounded (the worker stores it in a Float32Array).*)
(***************************************************************************)
VoxelSizes == {3, 8, 16}

\* each new point weighs as much as all the earlier ones together
RECURSIVE RunningMeanHalved(_, _, _)
RunningMeanHalved(values, k, mean) ==
    IF k > Len(values) THEN mean
    ELSE RunningMeanHalved(values, k + 1,
                           [n |-> mean.n + values[k] * mean.d,
                            d |-> mean.d * 2])

\* the mean the worker keeps per voxel, updated point by point:
\* (mean * n + x) / (n + 1), over the values from the k-th on
RECURSIVE RunningMean(_, _, _)
RunningMean(values, k, mean) ==
    IF k > Len(values) THEN mean
    ELSE RunningMean(values, k + 1,
                     [n |-> mean.n * (k - 1) + values[k] * mean.d,
                      d |-> mean.d * k])

\* the result has one point per key of voxelMap, in the order the keys were
\* first set; cells lists those keys
voxelDownsample(ver, points, voxelSize) ==
    LET key(i) == [c \in {"x", "y", "z"} |-> points[i][c] \div voxelSize]
        first == SelectSeq([i \in 1..Len(points) |-> i],
                           LAMBDA i : \A j \in 1..(i - 1) : key(j) # key(i))
        members(f) == SelectSeq([i \in 1..Len(points) |-> i],
                                LAMBDA i : key(i) = key(f))
        values(f, c) == [k \in 1..Len(members(f)) |-> points[members(f)[k]][c]]
        sum(f, c) == SumOver(1..Len(members(f)), values(f, c))
        mean(f, c) ==
            IF ver = "utils" THEN [n |-> sum(f, c), d |-> Len(members(f))]
            ELSE RunningMean(values(f, c), 2, [n |-> values(f, c)[1], d |-> 1])
    IN  [points |-> [k \in 1..Len(first) |->
                        [c \in {"x", "y", "z"} |-> mean(first[k], c)]],
         cells |-> [k \in 1..Len(first) |-> key(first[k])],
         count |-> Len(first)]

(***************************************************************************)
(* One call of the spatial partitioner.                                    *)
(***************************************************************************)
PartStart(op, ver, points, hasColors, opts, voxelSize) ==
    [op |-> op, ver |-> ver, points |-> points, hasColors |-> hasColors,
     options |-> opts, voxelSize |-> voxelSize, done |-> FALSE,
     result |-> << >>]

PartIdle ==
    part = PartStart("none", "utils", << >>, FALSE,
                     [maxPointsPerNode |-> 0, maxDepth |-> 0,
                      minNodeSize |-> 0], 1)

PartInit ==
    \E points \in SeqsUpTo(PartPoints, MaxPoints) :
        \/ \E hasColors \in BOOLEAN, opts \in OctreeOptions :
              part = PartStart("buildOctree", "utils", points, hasColors,
                               opts, 1)
        \/ \E ver \in {"utils", "worker"}, voxelSize \in VoxelSizes :
              part = PartStart("voxelDownsample", ver, points, FALSE,
                               [maxPointsPerNode |-> 0, maxDepth |-> 0,
                                minNodeSize |-> 0], voxelSize)

BuildOctreeCall ==
    /\ part.op = "buildOctree"
    /\ ~part.done
    /\ part' = [part EXCEPT
                  !.done = TRUE,
                  !.result = <<buildOctree(part.points, part.hasColors,
                                           part.options)>>]

VoxelDownsampleCall ==
    /\ part.op = "voxelDownsample"
    /\ ~part.done
    /\ part' = [part EXCEPT
                  !.done = TRUE,
                  !.result = <<voxelDownsample(part.ver, part.points,
                                               part.voxelSize)>>]

(***************************************************************************)
(* PointCloudViewer.vue: loadPointCloud, called by the watcher of the      *)
(* pointCloudFile prop.  The call awaits loader.loadPointCloud and goes on *)
(* when that promise settles, whatever was requested in between.  With the *)
(* viewer's options (chunkSize 500000, lodLevels [1]) a file of the model  *)
(* comes back as the one chunk chunk_0_0 (id 1, lod 0).                    *)
(***************************************************************************)
\* the files and the number of points of each
FilePointCount == ("a" :> 1) @@ ("b" :> 2) @@ ("c" :> 2)

LoadsIdle == loads = << >>

\* loadPointCloud(file) up to its await
loadPointCloud(file) ==
    /\ alive
    /\ Len(loads) < MaxObjs
    /\ loads' = Append(loads, [file |-> file, state |-> "pending",
                               handle |-> 0, superseded |-> FALSE])
    /\ UNCHANGED schedVars

\* the promise of load k resolves: its chunk goes to engine.addChunk;
\* superseded records whether a later load had been requested by then
LoadResolved(k) ==
    /\ loads[k].state = "pending"
    /\ addChunk(1, 0, FilePointCount[loads[k].file])
    /\ loads' = [loads EXCEPT ![k] = [@ EXCEPT !.state = "resolved",
                                               !.handle = Len(objs) + 1,
                                               !.superseded = k < Len(loads)]]

\* the promise of load k rejects: the catch block adds nothing
LoadRejected(k) ==
    /\ loads[k].state = "pending"
    /\ loads' = [loads EXCEPT ![k].state = "failed"]
    /\ UNCHANGED schedVars

(***************************************************************************)
(* PointCloudLoader.ts: loadPointCloud, one call after the other.  A file  *)
(* is its bytes, a number that stands for the content: two File objects of *)
(* the same bytes are the same file of the model, and a file of bytes b    *)
(* parses to b points.  A progress value is                                *)
(* kept in thirds of a percent, so that 50 + (lodIndex / length) * 40 is a *)
(* whole number for the lengths of the model.  A cache key is <<hash>> for *)
(* pcd_<hash> and <<hash, i>> for pcd_<hash>_lod<i>.                        *)
(***************************************************************************)
LoaderFiles == [bytes : (MaxPoints - 1)..MaxPoints]

LoadOptions == [enableCache : BOOLEAN, lodLevels : {0, 1, MaxLodLevels},
                chunkSize : {1, MaxChunkSize}]

Thirds(percent) == 3 * percent

\* the result of the worker's parsePCD: 3 coordinates and 3 colour bytes
\* for each of the count points
Dataset(count) ==
    [points |-> [k \in 1..(3 * count) |-> k],
     colors |-> [k \in 1..(3 * count) |-> 100 + k],
     count |-> count]

\* the result of the worker's voxelDownsample, a function of the parsed
\* data and of the tier: one point for each voxel, the voxels of a coarser
\* tier being fewer
Downsampled(parsed, lodIndex) ==
    LET count == (parsed.count + lodIndex) \div (lodIndex + 1)
    IN  [points |-> [k \in 1..(3 * count) |-> 50 + k],
         colors |-> [k \in 1..(3 * count) |-> 150 + k],
         count |-> count]

NoSplit == [done |-> FALSE, data |-> Dataset(0), chunkSize |-> 1, lod |-> 0,
            chunks |-> << >>]

LoaderInitial ==
    [pc |-> "idle", runs |-> 0, file |-> [bytes |-> 1],
     opts |-> [enableCache |-> FALSE, lodLevels |-> 0, chunkSize |-> 1],
     progress |-> << >>, timer |-> FALSE, simulatedProgress |-> 0,
     ticks |-> 0, lodIndex |-> 0, parsed |-> Dataset(0), chunks |-> << >>,
     store |-> {}, parseCalls |-> 0, fromCache |-> FALSE,
     cachedBefore |-> FALSE, loaded |-> {}, settledAt |-> 0,
     split |-> NoSplit]

LoaderIdle == ld = LoaderInitial

\* generateFileHash: the same bytes give the same hash
generateFileHash(file) == file.bytes

\* TypedArray.prototype.slice(start, end) with 0 <= start <= end
Slice(array, start, end) ==
    SubSeq(array, start + 1, IF end < Len(array) THEN end ELSE Len(array))

\* the first element of chunk i, counted in points and not in elements
ChunkStartInPoints(i, chunkSize) ==
    i * chunkSize

ChunkStart(i, chunkSize) ==
    i * chunkSize * 3

splitIntoChunks(data, chunkSize, lod) ==
    LET numChunks == (data.count + chunkSize - 1) \div chunkSize
    IN  [j \in 1..numChunks |->
            LET i == j - 1
                startIdx == ChunkStart(i, chunkSize)
                endIdx == IF startIdx + chunkSize * 3 < Len(data.points)
                          THEN startIdx + chunkSize * 3
                          ELSE Len(data.points)
            IN  [id |-> <<lod, i>>,
                 points |-> Slice(data.points, startIdx, endIdx),
                 colors |-> Slice(data.colors, startIdx, endIdx),
                 count |-> (endIdx - startIdx) \div 3,
                 lod |-> lod]]

\* indexedDBCache.getPointCloud: the entry stored under exactly this key,
\* << >> for null
getPointCloud(store, key) ==
    IF \E e \in store : e.key = key
    THEN <<CHOOSE e \in store : e.key = key>>
    ELSE << >>

\* indexedDBCache.savePointCloud: put replaces the entry of the same key
savePointCloud(store, key, data, lod) ==
    {e \in store : e.key # key} \cup
    {[key |-> key, points |-> data.points, colors |-> data.colors,
      count |-> data.count, lod |-> lod]}

\* cached.key.replace('_lod0', `_lod${lodIndex}`)
ReplaceLod0(key, lodIndex) ==
    IF Len(key) = 2 /\ key[2] = 0 THEN <<key[1], lodIndex>> ELSE key

RECURSIVE createChunksFromCacheLoop(_, _, _, _)
createChunksFromCacheLoop(store, cached, lodLevels, lodIndex) ==
    IF lodIndex >= lodLevels THEN << >>
    ELSE LET lodCache == getPointCloud(store, ReplaceLod0(cached.key, lodIndex))
             lodChunks == IF lodCache = << >> THEN << >>
                          ELSE splitIntoChunks(lodCache[1], 100000, lodIndex)
         IN  lodChunks \o
             createChunksFromCacheLoop(store, cached, lodLevels, lodIndex + 1)

createChunksFromCache(store, cached, lodLevels) ==
    createChunksFromCacheLoop(store, cached, lodLevels, 0)

\* the interval timer is left running
KeepInterval(timer) ==
    timer

clearInterval(timer) ==
    FALSE

lodProgress(lodIndex, lodLevels) ==
    Thirds(50) + (lodIndex * Thirds(40)) \div lodLevels

LoaderSettled == ld.pc \in {"resolved", "rejected"}

\* loadPointCloud(file, options) up to its first await
LoaderLoadPointCloud(file, opts) ==
    /\ ld.pc = "idle" \/ LoaderSettled
    /\ ld.runs < MaxRuns
    /\ ld' = [ld EXCEPT !.pc = "hashing", !.runs = @ + 1, !.file = file,
                        !.opts = opts, !.progress = <<Thirds(0)>>,
                        !.timer = FALSE, !.simulatedProgress = 0,
                        !.ticks = 0, !.lodIndex = 0,
                        !.parsed = Dataset(0), !.chunks = << >>,
                        !.parseCalls = 0, !.fromCache = FALSE,
                        !.cachedBefore = generateFileHash(file) \in ld.loaded,
                        !.settledAt = 0, !.split = NoSplit]

\* the hash is there: the cache is asked for pcd_<hash>
CacheLookup ==
    /\ ld.pc = "hashing"
    /\ LET cacheKey == <<generateFileHash(ld.file)>>
           cached == IF ld.opts.enableCache
                     THEN getPointCloud(ld.store, cacheKey) ELSE << >>
       IN  IF cached # << >>
           THEN ld' = [ld EXCEPT
                    !.pc = "resolved",
                    !.progress = Append(@, Thirds(100)),
                    !.settledAt = Len(ld.progress) + 1,
                    !.fromCache = TRUE,
                    !.chunks = createChunksFromCache(ld.store, cached[1],
                                                     ld.opts.lodLevels)]
           ELSE ld' = [ld EXCEPT !.pc = "initWorker"]

\* initWorker is through: parsePCD is called and the interval timer set
WorkerReady ==
    /\ ld.pc = "initWorker"
    /\ ld' = [ld EXCEPT !.pc = "parsing",
                        !.progress = Append(@, Thirds(10)),
                        !.parseCalls = @ + 1,
                        !.simulatedProgress = 10,
                        !.timer = TRUE]

\* generateFileHash, getPointCloud or initWorker rejects
LoadFailsEarly ==
    /\ ld.pc \in {"hashing", "initWorker"}
    /\ ld' = [ld EXCEPT !.pc = "rejected", !.settledAt = Len(ld.progress)]

\* the callback of setInterval
ProgressTick ==
    /\ ld.timer
    /\ ld.ticks < MaxTicks
    /\ LET next == IF ld.simulatedProgress + 2 < 45
                   THEN ld.simulatedProgress + 2 ELSE 45
       IN  ld' = [ld EXCEPT !.simulatedProgress = next,
                            !.ticks = @ + 1,
                            !.progress = Append(@, Thirds(next))]

\* parsePromise resolves
ParseResolved ==
    /\ ld.pc = "parsing"
    /\ ld' = [ld EXCEPT !.pc = "lod",
                        !.parsed = Dataset(ld.file.bytes),
                        !.timer = clearInterval(@),
                        !.progress = Append(@, Thirds(50)),
                        !.lodIndex = 0]

\* parsePromise rejects: the catch block
ParseRejected ==
    /\ ld.pc = "parsing"
    /\ ld' = [ld EXCEPT !.pc = "rejected",
                        !.timer = clearInterval(@),
                        !.settledAt = Len(ld.progress)]

\* one pass of the loop over lodLevels
LodStep ==
    /\ ld.pc = "lod"
    /\ ld.lodIndex < ld.opts.lodLevels
    /\ LET lodData == IF ld.lodIndex = 0 THEN ld.parsed
                      ELSE Downsampled(ld.parsed, ld.lodIndex)
           lodChunks == splitIntoChunks(lodData, ld.opts.chunkSize, ld.lodIndex)
           cacheKey == <<generateFileHash(ld.file), ld.lodIndex>>
       IN  ld' = [ld EXCEPT
                    !.progress = Append(@, lodProgress(ld.lodIndex,
                                                       ld.opts.lodLevels)),
                    !.chunks = @ \o lodChunks,
                    !.split = [done |-> TRUE, data |-> lodData,
                               chunkSize |-> ld.opts.chunkSize,
                               lod |-> ld.lodIndex, chunks |-> lodChunks],
                    !.store = IF ld.opts.enableCache
                              THEN savePointCloud(@, cacheKey, lodData,
                                                  ld.lodIndex)
                              ELSE @,
                    !.lodIndex = @ + 1]

\* voxelDownsample or savePointCloud rejects in a pass: the catch block
LodRejected ==
    /\ ld.pc = "lod"
    /\ ld.lodIndex < ld.opts.lodLevels
    /\ ld.lodIndex > 0 \/ ld.opts.enableCache
    /\ ld' = [ld EXCEPT
                !.pc = "rejected",
                !.progress = Append(@, lodProgress(ld.lodIndex,
                                                   ld.opts.lodLevels)),
                !.timer = clearInterval(@),
                !.settledAt = Len(ld.progress) + 1]

\* the loop is over: the last callback and the return
LoadDone ==
    /\ ld.pc = "lod"
    /\ ld.lodIndex >= ld.opts.lodLevels
    /\ ld' = [ld EXCEPT
                !.pc = "resolved",
                !.progress = Append(@, Thirds(100)),
                !.settledAt = Len(ld.progress) + 1,
                !.loaded = IF ld.opts.enableCache
                           THEN @ \cup {generateFileHash(ld.file)} ELSE @]

(***************************************************************************)
(* SceneManager.ts: updatePointCloud and clearPointCloud.  The data of a   *)
(* call is named by the number of the call; pointCloudData is that number, *)
(* or 0 for null.  A timer of setTimeout(processNextBatch, 0) carries the  *)
(* closure of its call: the call, its numPoints and its currentIndex.      *)
(* Pending timers of different calls fire in any order (nested timeouts    *)
(* are delayed by the browser's clamp).                                     *)
(***************************************************************************)
ScenePointCounts == {0, 500000, 500001, 600001}

BatchedAbove == 500000

batchSize == 100000

SceneInitial == [pointCloudData |-> 0, timers |-> << >>, calls |-> 0,
                 last |-> 0]

SceneIdle == sm = SceneInitial

processBatch(startIndex, size, numPoints) ==
    IF startIndex + size < numPoints THEN startIndex + size ELSE numPoints

\* processNextBatch of the call with this closure, on the manager state s
processNextBatch(s, call, numPoints, currentIndex) ==
    LET endIndex == processBatch(currentIndex, batchSize, numPoints)
    IN  IF endIndex < numPoints
        THEN [s EXCEPT !.timers = Append(@, [call |-> call,
                                             numPoints |-> numPoints,
                                             currentIndex |-> endIndex])]
        ELSE [s EXCEPT !.pointCloudData = call]

updatePointCloud(numPoints) ==
    /\ sm.calls < MaxCalls
    /\ LET call == sm.calls + 1
           s == [sm EXCEPT !.calls = call]
       IN  IF numPoints = 0
           THEN sm' = [s EXCEPT !.pointCloudData = 0, !.last = 0]
           ELSE IF numPoints > BatchedAbove
           THEN sm' = processNextBatch([s EXCEPT !.last = call],
                                       call, numPoints, 0)
           ELSE sm' = [s EXCEPT !.pointCloudData = call, !.last = call]

clearPointCloud ==
    /\ sm.calls < MaxCalls
    /\ sm' = [sm EXCEPT !.calls = @ + 1, !.pointCloudData = 0, !.last = 0]

\* the k-th pending timer fires
BatchTimerFires(k) ==
    /\ k \in 1..Len(sm.timers)
    /\ LET t == sm.timers[k]
           rest == [sm EXCEPT !.timers = SubSeq(@, 1, k - 1) \o
                                         SubSeq(@, k + 1, Len(@))]
       IN  sm' = processNextBatch(rest, t.call, t.numPoints, t.currentIndex)

(***************************************************************************)
(* Specifications: one per component, the other components at rest.       *)
(***************************************************************************)
SchedNext ==
    \/ \E id \in Ids, lod \in Lods, count \in Counts :
          addChunk(id, lod, count) /\ UNCHANGED <<lzf, enc, dec, part, loads, ld, sm>>
    \/ \E id \in Ids : removeChunk(id) /\ UNCHANGED <<lzf, enc, dec, part, loads, ld, sm>>
    \/ \E s \in SUBSET Listed(chunksByLOD) :
          render(s) /\ UNCHANGED <<lzf, enc, dec, part, loads, ld, sm>>
    \/ \E m \in Caps, b \in Caps, c \in BOOLEAN :
          updateOptions(m, b, c) /\ UNCHANGED <<lzf, enc, dec, part, loads, ld, sm>>
    \/ dispose /\ UNCHANGED <<lzf, enc, dec, part, loads, ld, sm>>

SchedSpecInit ==
    SchedInit /\ LzfIdle /\ EncIdle /\ DecIdle /\ PartIdle /\ LoadsIdle /\ LoaderIdle /\ SceneIdle

SpecSched == SchedSpecInit /\ [][SchedNext]_vars

LzfNext ==
    \/ LzfIterate /\ UNCHANGED <<schedVars, enc, dec, part, loads, ld, sm>>
    \/ LzfFinish /\ UNCHANGED <<schedVars, enc, dec, part, loads, ld, sm>>

LzfSpecInit ==
    SchedIdle /\ EncIdle /\ DecIdle /\ PartIdle /\ LoadsIdle /\ LoaderIdle /\ SceneIdle /\ LzfInit

SpecLzf == LzfSpecInit /\ [][LzfNext]_vars

\* the call runs to its end: nothing else is scheduled between two passes of
\* its loop
SpecLzfRuns == SpecLzf /\ WF_vars(LzfNext)

RoundTripNext ==
    \/ \E k \in 1..MaxPayload :
          EncodeLiteral(k) /\ UNCHANGED <<schedVars, lzf, dec, part, loads, ld, sm>>
    \/ \E d \in 1..MaxPayload, n \in 3..MaxPayload :
          EncodeMatch(d, n) /\ UNCHANGED <<schedVars, lzf, dec, part, loads, ld, sm>>
    \/ \E ver \in LzfVersions : EncDecode(ver) /\ UNCHANGED <<schedVars, dec, part, loads, ld, sm>>

RoundTripInit ==
    SchedIdle /\ LzfIdle /\ DecIdle /\ PartIdle /\ LoadsIdle /\ LoaderIdle /\ SceneIdle /\ EncInit

SpecLzfRoundTrip == RoundTripInit /\ [][RoundTripNext]_vars

DecodeNext ==
    \/ parsePCDFileHeader /\ UNCHANGED <<schedVars, enc, part, loads, ld, sm>>
    \/ parsePCDFileAscii /\ UNCHANGED <<schedVars, enc, part, loads, ld, sm>>
    \/ parsePCDFileBinary /\ UNCHANGED <<schedVars, enc, part, loads, ld, sm>>
    \/ parseBinaryCompressedData /\ UNCHANGED <<schedVars, enc, part, loads, ld, sm>>
    \/ DecompressIterate /\ UNCHANGED <<schedVars, enc, part, loads, ld, sm>>
    \/ DecompressFinish /\ UNCHANGED <<schedVars, enc, part, loads, ld, sm>>
    \/ parseDecompressed /\ UNCHANGED <<schedVars, enc, part, loads, ld, sm>>
    \/ parsePCD /\ UNCHANGED <<schedVars, enc, part, loads, ld, sm>>

DecodeInit ==
    SchedIdle /\ LzfIdle /\ EncIdle /\ PartIdle /\ LoadsIdle /\ LoaderIdle /\ SceneIdle /\ DecInit

SpecDecode == DecodeInit /\ [][DecodeNext]_vars

PartitionNext ==
    \/ BuildOctreeCall /\ UNCHANGED <<schedVars, lzf, enc, dec, loads, ld, sm>>
    \/ VoxelDownsampleCall /\ UNCHANGED <<schedVars, lzf, enc, dec, loads, ld, sm>>

PartitionInit ==
    SchedIdle /\ LzfIdle /\ EncIdle /\ DecIdle /\ LoadsIdle /\ LoaderIdle /\ SceneIdle /\ PartInit

SpecPartition == PartitionInit /\ [][PartitionNext]_vars

ViewerNext ==
    \/ \E file \in DOMAIN FilePointCount :
          loadPointCloud(file) /\ UNCHANGED <<lzf, enc, dec, part, ld, sm>>
    \/ \E k \in 1..Len(loads) :
          LoadResolved(k) /\ UNCHANGED <<lzf, enc, dec, part, ld, sm>>
    \/ \E k \in 1..Len(loads) :
          LoadRejected(k) /\ UNCHANGED <<lzf, enc, dec, part, ld, sm>>

ViewerInit ==
    SchedIdle /\ LzfIdle /\ EncIdle /\ DecIdle /\ PartIdle /\ LoadsIdle /\ LoaderIdle /\ SceneIdle

SpecViewer == ViewerInit /\ [][ViewerNext]_vars

LoaderNext ==
    \/ \E file \in LoaderFiles, opts \in LoadOptions :
          LoaderLoadPointCloud(file, opts)
          /\ UNCHANGED <<schedVars, lzf, enc, dec, part, loads, sm>>
    \/ CacheLookup /\ UNCHANGED <<schedVars, lzf, enc, dec, part, loads, sm>>
    \/ WorkerReady /\ UNCHANGED <<schedVars, lzf, enc, dec, part, loads, sm>>
    \/ LoadFailsEarly /\ UNCHANGED <<schedVars, lzf, enc, dec, part, loads, sm>>
    \/ ProgressTick /\ UNCHANGED <<schedVars, lzf, enc, dec, part, loads, sm>>
    \/ ParseResolved /\ UNCHANGED <<schedVars, lzf, enc, dec, part, loads, sm>>
    \/ ParseRejected /\ UNCHANGED <<schedVars, lzf, enc, dec, part, loads, sm>>
    \/ LodStep /\ UNCHANGED <<schedVars, lzf, enc, dec, part, loads, sm>>
    \/ LodRejected /\ UNCHANGED <<schedVars, lzf, enc, dec, part, loads, sm>>
    \/ LoadDone /\ UNCHANGED <<schedVars, lzf, enc, dec, part, loads, sm>>

LoaderInit ==
    SchedIdle /\ LzfIdle /\ EncIdle /\ DecIdle /\ PartIdle /\ LoadsIdle /\ LoaderIdle /\ SceneIdle

SpecLoader == LoaderInit /\ [][LoaderNext]_vars

SceneNext ==
    \/ \E numPoints \in ScenePointCounts :
          updatePointCloud(numPoints)
          /\ UNCHANGED <<schedVars, lzf, enc, dec, part, loads, ld>>
    \/ clearPointCloud /\ UNCHANGED <<schedVars, lzf, enc, dec, part, loads, ld>>
    \/ \E k \in 1..MaxCalls :
          BatchTimerFires(k) /\ UNCHANGED <<schedVars, lzf, enc, dec, part, loads, ld>>

SceneInit ==
    SchedIdle /\ LzfIdle /\ EncIdle /\ DecIdle /\ PartIdle /\ LoadsIdle /\ LoaderIdle /\ SceneIdle

SpecScene == SceneInit /\ [][SceneNext]_vars

\* the chunks of the working set whose renderer object is flagged visible
VisibleChunks == Listed(chunksByLOD) \cap visible

VisiblePointCount == SumOver(VisibleChunks, [h \in 1..Len(objs) |-> objs[h].count])

\* C1: after every frame, the point counts of the chunks flagged visible sum
\* to at most maxPointCount.
FrameWithinMaxPointCount ==
    frame.done => VisiblePointCount <= options.maxPointCount

\* C2: when a frame reached the point budget while processing a chunk of
\* tier L, no chunk of a finer tier (level below L) is visible at its end.
BudgetHidesFinerTiers ==
    (frame.done /\ frame.tier >= 0) =>
        \A h \in VisibleChunks : objs[h].lod >= frame.tier

\* C18: a frame goes through the LOD tiers in decreasing level number: when
\* a chunk of level k is shown and charged, every listed chunk of a level
\* above k has already been gone through.
CoarsestTiersFirst ==
    frame.done =>
        \A i \in 1..Len(frame.order) :
            frame.order[i].shown =>
                \A g \in Listed(chunksByLOD) :
                    objs[g].lod > objs[frame.order[i].h].lod =>
                        \E j \in 1..(i - 1) : frame.order[j].h = g

\* C20: once dispose() has run, no points object made by an addChunk is
\* left in the scene, and the geometry and material of each were disposed.
DisposeReleasesEveryObject ==
    ~alive => (scene = {} /\ disposed = 1..Len(objs))

\* C23: the flags a frame leaves on the chunks of the working set depend on
\* the working set, the frustum and the options only: the same frame started
\* from any other flags ends with the same flags.
FlagsIndependentOfPreviousFrame ==
    frame.done =>
        \A before \in SUBSET Listed(chunksByLOD) :
            updateVisibilityAndLOD(objs, chunksByLOD, options, before,
                                   frame.frustum).vis
                \cap Listed(chunksByLOD)
            = visible \cap Listed(chunksByLOD)

\* the chunks in the by-id map
Mapped == {chunks[i] : i \in Ids} \ {0}

\* C29: while the engine is in use, the by-id map and the per-LOD lists hold
\* the same chunks, each listed once and under its own lod, and
\* stats.totalPoints is the sum of their point counts.
ChunkMapMatchesLodLists ==
    alive =>
        /\ Listed(chunksByLOD) = Mapped
        /\ \A l \in Lods :
              /\ \A i \in 1..Len(chunksByLOD[l]) :
                    objs[chunksByLOD[l][i]].lod = l
              /\ \A i, j \in 1..Len(chunksByLOD[l]) :
                    chunksByLOD[l][i] = chunksByLOD[l][j] => i = j
        /\ stats.totalPoints
             = SumOver(Mapped, [h \in 1..Len(objs) |-> objs[h].count])

(***************************************************************************)
(* lzfDecompress: properties                                               *)
(***************************************************************************)
\* C3: whenever lzfDecompress returns, the returned buffer has exactly
\* decompressedSize (expectedSize) bytes, whatever the input bytes.
LzfReturnsExpectedSize ==
    lzf.status = "returned" =>
        /\ lzf.decompressed.length = lzf.decompressedSize
        /\ Len(lzf.decompressed.data) <= lzf.decompressedSize

\* a call that returned after producing fewer bytes than expected
LzfReturnedShort ==
    /\ lzf.status = "returned"
    /\ lzf.outputPos > 0
    /\ lzf.outputPos < lzf.decompressedSize

\* the call is about to decode a back-reference whose length and offset
\* bytes are all in the input
LzfAtBackRef ==
    /\ lzf.status = "loop"
    /\ LzfLoopCond(lzf)
    /\ lzf.compressed[lzf.inputPos + 1] >= 32
    /\ lzf.inputPos + (IF lzf.compressed[lzf.inputPos + 1] >= 224 THEN 2 ELSE 1)
          < Len(lzf.compressed)

\* outputPos - off - 1 for that back-reference,
\* off = ((ctrl & 0x1f) << 8) | nextByte
LzfBackRefSource ==
    LET ctrl == lzf.compressed[lzf.inputPos + 1]
        nextByte == lzf.compressed[lzf.inputPos +
                                   (IF ctrl >= 224 THEN 2 ELSE 1) + 1]
    IN  lzf.outputPos - ((ctrl % 32) * 256 + nextByte) - 1

\* C4: decoding a back-reference whose source position outputPos - off - 1
\* is negative or >= outputPos makes the call fail: it throws, writes
\* nothing more and never returns a buffer.
LzfInvalidBackRefFails ==
    [][(LzfAtBackRef /\ (LzfBackRefSource < 0
                         \/ LzfBackRefSource >= lzf.outputPos))
        => /\ lzf'.status = "threw"
           /\ lzf'.decompressed = lzf.decompressed]_vars

\* a call that threw on a back-reference reaching before the start of the
\* output, after some output had been produced
LzfThrewInvalidOffset ==
    /\ lzf.status = "threw"
    /\ lzf.error = "invalid offset"
    /\ lzf.outputPos > 0

\* C5: a call that ends with n < expectedSize bytes produced returns (zero
\* padded from n) only if the shortfall is at most 1% of expectedSize; a
\* larger shortfall makes it fail.
LzfLargeShortfallFails ==
    (lzf.status = "returned" /\ lzf.outputPos < lzf.decompressedSize) =>
        /\ lzf.decompressedSize - lzf.outputPos <= lzf.decompressedSize \div 100
        /\ \A i \in lzf.outputPos..(lzf.decompressedSize - 1) :
               ByteAt(lzf.decompressed, i) = 0

\* (ctrl >> 5) + (the extra length byte when ctrl >> 5 is 7) + 2 for the
\* back-reference the call is about to decode
LzfBackRefLength ==
    LET ctrl == lzf.compressed[lzf.inputPos + 1]
    IN  IF ctrl \div 32 = 7
        THEN 7 + lzf.compressed[lzf.inputPos + 2] + 2
        ELSE ctrl \div 32 + 2

\* C24: a back-reference with a valid source position src and a length L
\* that fits into the output writes L bytes with out[outputPos + i] =
\* out[src + i] for 0 <= i < L on the buffer after the step, overlapping
\* or not, and changes no byte before outputPos.
LzfBackRefCopiesForward ==
    [][(/\ LzfAtBackRef
        /\ LzfBackRefSource >= 0
        /\ LzfBackRefSource < lzf.outputPos
        /\ lzf.outputPos + LzfBackRefLength <= lzf.decompressedSize)
        => /\ lzf'.outputPos = lzf.outputPos + LzfBackRefLength
           /\ Len(lzf'.decompressed.data) = lzf'.outputPos
           /\ \A i \in 0..(LzfBackRefLength - 1) :
                 lzf'.decompressed.data[lzf.outputPos + i + 1]
                   = lzf'.decompressed.data[LzfBackRefSource + i + 1]
           /\ SubSeq(lzf'.decompressed.data, 1, lzf.outputPos)
                 = lzf.decompressed.data]_vars

\* the call has copied a back-reference of 3 bytes to the byte just before
\* outputPos, the copy reading the bytes it wrote
LzfOverlappingCopyDone ==
    /\ Len(lzf.compressed) >= 4
    /\ SubSeq(lzf.compressed, 1, 4) = <<0, 89, 32, 0>>
    /\ lzf.inputPos = 4
    /\ lzf.outputPos = 4
    /\ lzf.decompressed.data = <<89, 89, 89, 89>>

\* C30: at every step of a call 0 <= inputPos <= the input length and
\* 0 <= outputPos <= expectedSize, the bytes written being those below
\* outputPos, and every pass of the loop moves inputPos forward, so that the
\* call ends.
LzfStaysInBounds ==
    /\ [](/\ 0 <= lzf.inputPos /\ lzf.inputPos <= Len(lzf.compressed)
          /\ 0 <= lzf.outputPos /\ lzf.outputPos <= lzf.decompressedSize
          /\ Len(lzf.decompressed.data) <= lzf.decompressed.length
          /\ lzf.decompressed.length <= lzf.decompressedSize)
    /\ [][(lzf.status = "loop" /\ LzfLoopCond(lzf))
            => lzf'.inputPos > lzf.inputPos]_vars
    /\ <>(lzf.status \in {"returned", "threw"})

\* a call that returned after a literal run was cut to the room left in the
\* output, input being left over
LzfLiteralClipped ==
    /\ lzf.status = "returned"
    /\ lzf.outputPos = lzf.decompressedSize
    /\ Len(lzf.compressed) = 5
    /\ lzf.compressed[1] = 0
    /\ lzf.compressed[3] = 1
    /\ lzf.decompressedSize = 2
    /\ lzf.inputPos = 4

\* C6: a stream written for a payload, of literal runs only or with
\* back-references, decodes to the payload byte for byte: the call never
\* throws and returns a buffer of the payload's length holding the payload.
LzfRoundTrip ==
    enc.started =>
        /\ lzf.status = "returned"
        /\ lzf.decompressed.length = Len(enc.payload)
        /\ lzf.decompressed.data = enc.payload

\* a payload that came back from a stream with a long, overlapping
\* back-reference in it
LzfRoundTripDone ==
    /\ enc.started
    /\ lzf.status = "returned"
    /\ \E i \in 1..Len(enc.out) : enc.out[i] = 224
    /\ \E i \in 1..Len(enc.payload) : enc.payload[i] # enc.payload[1]

(***************************************************************************)
(* PCD decoders: properties                                                *)
(***************************************************************************)
\* a decode of a binary_compressed file went past the checks of the two
\* length words, the body having at least the 8 bytes of the words
DecPastLengthCheck ==
    /\ dec.entry \in LzfVersions
    /\ dec.header.data = <<"binary_compressed">>
    /\ dec.stage \notin {"start", "compressed"}
    /\ Len(dec.file.bytes) >= 8

\* the compressed and the uncompressed length the body states
DecCompressedLength == getUint32(Buffer(dec.file.bytes), 0)

DecUncompressedLength == getUint32(Buffer(dec.file.bytes), 4)

\* a length is 0, the compressed length overruns the bytes after the
\* 8-byte prefix, or the uncompressed length is above 1e9
DecLengthsBad ==
    \/ DecCompressedLength = Num(0)
    \/ DecUncompressedLength = Num(0)
    \/ DecCompressedLength.k = "big"
    \/ DecCompressedLength.v > Len(dec.file.bytes) - 8
    \/ DecUncompressedLength.k = "big"
    \/ DecUncompressedLength.v > 1000000000

\* C7: a binary_compressed body whose length words are bad is rejected with
\* no point and without lzfDecompress having been called; with any other
\* pair of lengths, lzfDecompress is called on the compressed bytes with the
\* uncompressed length.
CompressedLengthsChecked ==
    DecPastLengthCheck =>
        IF DecLengthsBad
        THEN dec.stage = "rejected" /\ dec.points = << >> /\ LzfIdle
        ELSE /\ lzf.ver = dec.entry
             /\ lzf.compressed =
                  SubSeq(dec.file.bytes, 9, 8 + DecCompressedLength.v)
             /\ lzf.decompressedSize = DecUncompressedLength.v

\* a body rejected for an uncompressed length just above the ceiling, its
\* compressed length being fine
CompressedOverCeilingRejected ==
    /\ DecPastLengthCheck
    /\ dec.stage = "rejected"
    /\ DecUncompressedLength = Num(1000000001)
    /\ DecCompressedLength = Num(4)

\* the header of the file has a line of that keyword
FileHas(file, key) ==
    \E i \in 1..Len(file.lines) :
        file.lines[i] # << >> /\ file.lines[i][1] = key

\* the names on the FIELDS line of the file
FileFields(file) ==
    UNION {Range(ValueParts(file.lines[i])) :
             i \in {j \in 1..Len(file.lines) :
                      file.lines[j] # << >> /\ file.lines[j][1] = "FIELDS"}}

FileHeaderComplete(file) ==
    /\ FileHas(file, "VERSION") /\ FileHas(file, "FIELDS")
    /\ FileHas(file, "POINTS") /\ FileHas(file, "DATA")
    /\ {"x", "y", "z"} \subseteq FileFields(file)

\* C8: through every entry point, a file whose header lacks VERSION,
\* FIELDS, POINTS or DATA, or whose FIELDS lack x, y or z, is rejected: a
\* decode that resolves had a complete header.
MalformedHeaderRejected ==
    dec.stage = "resolved" => FileHeaderComplete(dec.file)

\* a coordinate that is a finite number of magnitude at most 1e8
CoordinateAcceptable(n) ==
    \/ n.k = "frac"
    \/ n.k = "num" /\ n.v <= 100000000 /\ n.v >= -100000000

\* C9: points with a coordinate that is NaN, not finite or above 1e8 in
\* magnitude are dropped, and a decode with no point left is rejected: a
\* decode that resolves holds at least one point and only acceptable ones.
InvalidPointsDropped ==
    dec.stage = "resolved" =>
        /\ dec.points # << >>
        /\ \A i \in 1..Len(dec.points) :
              /\ CoordinateAcceptable(dec.points[i].x)
              /\ CoordinateAcceptable(dec.points[i].y)
              /\ CoordinateAcceptable(dec.points[i].z)

\* the lines of points of an ASCII file: those after its DATA line
FilePointLines(file) ==
    SubSeq(file.lines, DataLineOf(file.lines) + 1, Len(file.lines))

\* a well-formed line of points: three decimal numerals
WellFormedLine(line) ==
    Len(line) = 3 /\ \A j \in 1..3 : line[j] \in DOMAIN DecimalValue

\* a valid ASCII file with at least one line of points, all well formed
FileValidAscii(file) ==
    /\ FileHeaderComplete(file)
    /\ <<"DATA", "ascii">> \in Range(file.lines)
    /\ FilePointLines(file) # << >>
    /\ \A i \in 1..Len(FilePointLines(file)) :
          WellFormedLine(FilePointLines(file)[i])

\* the position of a field on the FIELDS line, 1-based
FileFieldAt(file, name) ==
    LET f == CHOOSE i \in 1..Len(file.lines) :
                 file.lines[i] # << >> /\ file.lines[i][1] = "FIELDS"
    IN  CHOOSE j \in 1..3 : file.lines[f][j + 1] = name

\* the points the file states, a coordinate being the numeral at the
\* position of its field
FilePoints(file) ==
    [i \in 1..Len(FilePointLines(file)) |->
        [x |-> Num(DecimalValue[FilePointLines(file)[i][FileFieldAt(file, "x")]]),
         y |-> Num(DecimalValue[FilePointLines(file)[i][FileFieldAt(file, "y")]]),
         z |-> Num(DecimalValue[FilePointLines(file)[i][FileFieldAt(file, "z")]])]]

\* the least and the greatest of the integers of a non-empty set
LeastOf(S) == CHOOSE m \in S : \A n \in S : m <= n

GreatestOf(S) == CHOOSE m \in S : \A n \in S : m >= n

FileBounds(file) ==
    LET ps == FilePoints(file)
        xs == {ps[i].x.v : i \in 1..Len(ps)}
        ys == {ps[i].y.v : i \in 1..Len(ps)}
        zs == {ps[i].z.v : i \in 1..Len(ps)}
    IN  [min |-> [x |-> Num(LeastOf(xs)), y |-> Num(LeastOf(ys)),
                  z |-> Num(LeastOf(zs))],
         max |-> [x |-> Num(GreatestOf(xs)), y |-> Num(GreatestOf(ys)),
                  z |-> Num(GreatestOf(zs))]]

\* C10: a valid ASCII file of N well-formed lines decodes to its N points,
\* with bounds that are the extrema of their coordinates, whatever the
\* POINTS value, the order of the fields and the point limits.
AsciiDecodesAllPoints ==
    (FileValidAscii(dec.file) /\ dec.stage \in {"resolved", "rejected"}) =>
        /\ dec.stage = "resolved"
        /\ dec.points = FilePoints(dec.file)
        /\ dec.bounds = <<FileBounds(dec.file)>>

\* parseBinaryData went through its loop with a positive point size and the
\* decode has settled
BinaryBodyRead ==
    /\ dec.stage \in {"resolved", "rejected"}
    /\ dec.layout # << >>
    /\ dec.layout[1].pointSize.k = "num"
    /\ dec.layout[1].pointSize.v > 0

\* the records a body of so many bytes holds whole, capped by POINTS
RecordsToRead(declared, availableBytes, stride) ==
    IF declared < availableBytes \div stride THEN declared
    ELSE availableBytes \div stride

\* the file is an uncompressed body of records of three one-byte fields
\* x, y, z in some order
FileOfByteTriples(file) ==
    /\ <<"DATA", "binary">> \in Range(file.lines)
    /\ <<"COUNT", "1", "1", "1">> \in Range(file.lines)
    /\ <<"SIZE", "1", "1", "1">> \in Range(file.lines)
    /\ FileFields(file) = {"x", "y", "z"}

HeaderListsAligned(header) ==
    /\ Len(header.size) = Len(header.fields)
    /\ Len(header.type) = Len(header.fields)
    /\ Len(header.count) = Len(header.fields)

\* the sum of size[j] * count[j] over the first n fields of the header
PackedSize(header, n) ==
    SumOver(1..n, [j \in 1..Len(header.fields) |->
                      header.size[j].v * header.count[j].v])

\* C12: in the binary reader the offset of field i is the sum of
\* size[j] * count[j] over the fields before i, and the record stride is that
\* sum over all the fields, for every header whose FIELDS, SIZE, TYPE and
\* COUNT lists are equally long.
FieldOffsetsAreRunningSums ==
    (dec.layout # << >> /\ HeaderListsAligned(dec.header)) =>
        /\ \A i \in 1..Len(dec.header.fields) :
              dec.layout[1].fieldOffsets[i] = Num(PackedSize(dec.header, i - 1))
        /\ dec.layout[1].pointSize
             = Num(PackedSize(dec.header, Len(dec.header.fields)))

\* C13: a returned dataset has a colour array exactly when the header
\* declares a colour field (rgb, r, g or b), and the array then has one
\* entry per returned point.
ColorsParallelToPoints ==
    dec.stage = "resolved" =>
        /\ dec.colors # << >>
             <=> FileFields(dec.file) \cap {"rgb", "r", "g", "b"} # {}
        /\ dec.colors # << >> => Len(dec.colors) = Len(dec.points)

\* a header line with its key in upper case and the value of DATA in lower
\* case
UpperCaseLine(line) ==
    IF line = << >> THEN line
    ELSE IF toLowerCase(line[1]) = "data"
    THEN <<"DATA">> \o [i \in 1..(Len(line) - 1) |-> toLowerCase(line[i + 1])]
    ELSE IF toLowerCase(line[1]) = "points" THEN <<"POINTS">> \o Tail(line)
    ELSE IF toLowerCase(line[1]) = "version" THEN <<"VERSION">> \o Tail(line)
    ELSE IF toLowerCase(line[1]) = "fields" THEN <<"FIELDS">> \o Tail(line)
    ELSE line

\* the same file with upper-case keys
UpperCaseFile(file) ==
    [file EXCEPT !.lines = [i \in 1..Len(@) |-> UpperCaseLine(@[i])]]

\* the end of the decode of an ASCII file through the entry point of d
AsciiOutcome(d) ==
    IF d.entry = "worker" THEN WorkerStage(d)
    ELSE LET h == HeaderStage(d)
         IN  IF h.stage = "ascii" THEN AsciiStage(h) ELSE h

\* the decode of a file without bytes after its text has ended
AsciiSettled ==
    /\ dec.file.bytes = << >>
    /\ dec.stage \in {"resolved", "rejected"}

\* C21: an ASCII file decodes to what the same file with upper-case keys
\* (and the DATA value in lower case) decodes to: the same outcome, points,
\* colours and bounds.
DecodeIgnoresLetterCase ==
    AsciiSettled =>
        LET twin == AsciiOutcome(DecStart(dec.entry, dec.options,
                                          UpperCaseFile(dec.file)))
        IN  /\ dec.stage = twin.stage
            /\ dec.points = twin.points
            /\ dec.colors = twin.colors
            /\ dec.bounds = twin.bounds

(***************************************************************************)
(* octree.ts: properties                                                   *)
(***************************************************************************)
\* buildOctree has returned; the tree
OctreeBuilt == part.op = "buildOctree" /\ part.done

RECURSIVE NodesOf(_)
NodesOf(node) ==
    {node} \cup
    (IF node.children = << >> THEN {}
     ELSE UNION {NodesOf(node.children[1][k]) :
                   k \in 1..Len(node.children[1])})

\* the point lists of the leaves, one after the other
RECURSIVE LeafPoints(_)
LeafPoints(node) ==
    IF node.children = << >> THEN node.points
    ELSE Concat([k \in 1..Len(node.children[1]) |->
                    LeafPoints(node.children[1][k])])

\* the nodes without children
LeavesOf(node) == {n \in NodesOf(node) : n.children = << >>}

\* C14, as stated: every leaf has at most maxPointsPerNode points, or is at
\* level maxDepth exactly, or is smaller than minNodeSize.
LeavesAtLimitExactly ==
    OctreeBuilt =>
        \A n \in LeavesOf(part.result[1]) :
            \/ n.pointCount <= part.options.maxPointsPerNode
            \/ n.level = part.options.maxDepth
            \/ n.bounds.size < part.options.minNodeSize

\* C14, amended: every leaf has at most maxPointsPerNode points, or is at
\* level maxDepth or deeper, or is smaller than minNodeSize.
LeavesAtLimit ==
    OctreeBuilt =>
        \A n \in LeavesOf(part.result[1]) :
            \/ n.pointCount <= part.options.maxPointsPerNode
            \/ n.level >= part.options.maxDepth
            \/ n.bounds.size < part.options.minNodeSize

\* a tree with a leaf two levels down that is a leaf for its level alone
LeafByDepthAlone ==
    /\ OctreeBuilt
    /\ \E n \in LeavesOf(part.result[1]) :
          /\ n.level = 2
          /\ n.pointCount > part.options.maxPointsPerNode
          /\ n.bounds.size >= part.options.minNodeSize

\* C15: the point lists of the leaves hold every input point exactly once,
\* and the pointCounts of the children of a node sum to its own.
LeavesPartitionPoints ==
    OctreeBuilt =>
        /\ Len(LeafPoints(part.result[1])) = Len(part.points)
        /\ Range(LeafPoints(part.result[1])) = 1..Len(part.points)
        /\ \A n \in NodesOf(part.result[1]) :
              n.children # << >> =>
                  n.pointCount =
                      SumOver(1..Len(n.children[1]),
                              [k \in 1..Len(n.children[1]) |->
                                  n.children[1][k].pointCount])

\* a tree of three levels whose root has more than one child
OctreeSplitTwice ==
    /\ OctreeBuilt
    /\ part.result[1].children # << >>
    /\ Len(part.result[1].children[1]) >= 2
    /\ \E n \in NodesOf(part.result[1]) : n.level = 2

\* C16: a node is a leaf that holds its points and has no children, or an
\* internal node that holds no points and has children, each of them built
\* from at least one point.
NodesLeafOrInternal ==
    OctreeBuilt =>
        \A n \in NodesOf(part.result[1]) :
            \/ n.children = << >> /\ Len(n.points) = n.pointCount
            \/ /\ n.children # << >>
               /\ n.points = << >>
               /\ Len(n.children[1]) >= 1
               /\ \A k \in 1..Len(n.children[1]) :
                     n.children[1][k].pointCount >= 1

\* a tree whose root was split into fewer than 8 children
OctreeSparse ==
    /\ OctreeBuilt
    /\ part.result[1].children # << >>
    /\ Len(part.result[1].children[1]) \in 1..7
    /\ \E k \in 1..Len(part.result[1].children[1]) :
          part.result[1].children[1][k].children # << >>

\* C27: with maxDepth >= 0 buildOctree returns a tree whose root has level
\* 0, whose children have the level of their parent plus 1 and in which no
\* level is above maxDepth, whatever the points and the other options.
OctreeLevelsBounded ==
    (OctreeBuilt /\ part.options.maxDepth >= 0) =>
        /\ part.result[1].level = 0
        /\ \A n \in NodesOf(part.result[1]) :
              /\ n.level <= part.options.maxDepth
              /\ n.children # << >> =>
                    \A k \in 1..Len(n.children[1]) :
                        n.children[1][k].level = n.level + 1

\* a tree of points that all coincide, built with minNodeSize 0 down to
\* maxDepth
OctreeOfCoincidingPoints ==
    /\ OctreeBuilt
    /\ Len(part.points) >= 2
    /\ \A i \in 1..Len(part.points) : part.points[i] = part.points[1]
    /\ part.options.minNodeSize = 0
    /\ part.options.maxDepth = 2
    /\ \E n \in NodesOf(part.result[1]) : n.level = 2

\* voxelDownsample has returned
VoxelDone == part.op = "voxelDownsample" /\ part.done

\* the cell of a point
CellOf(p, voxelSize) == [c \in {"x", "y", "z"} |-> p[c] \div voxelSize]

\* the fraction q is the mean of the coordinate c of the points of the cell
\* and lies in the cell
MeanInCell(q, c, cell, points, voxelSize) ==
    LET in == {i \in 1..Len(points) : CellOf(points[i], voxelSize) = cell}
    IN  /\ q.d > 0
        /\ q.n * Cardinality(in)
             = q.d * SumOver(in, [i \in 1..Len(points) |-> points[i][c]])
        /\ cell[c] * voxelSize * q.d <= q.n
        /\ q.n < (cell[c] + 1) * voxelSize * q.d

\* C17: voxelDownsample returns one point per occupied cell of the input,
\* so no more points than it was given; each is the mean of the points of
\* its cell and lies in that cell.
VoxelPointPerCell ==
    VoxelDone =>
        LET out == part.result[1].points
            cells == {CellOf(part.points[i], part.voxelSize) :
                        i \in 1..Len(part.points)}
        IN  /\ Len(out) = Cardinality(cells)
            /\ Len(out) <= Len(part.points)
            /\ \A cell \in cells :
                  \E k \in 1..Len(out) :
                      \A c \in {"x", "y", "z"} :
                          MeanInCell(out[k][c], c, cell, part.points,
                                     part.voxelSize)

\* three points, two of them in one cell below 0 on the x axis
VoxelMergedNegativeCell ==
    /\ VoxelDone
    /\ Len(part.points) = 3
    /\ Len(part.result[1].points) = 2
    /\ \E i \in 1..3 : part.points[i].x < 0
    /\ part.ver = "worker"

(***************************************************************************)
(* PointCloudViewer: properties                                            *)
(***************************************************************************)
\* C19: a load that resolves after a later one was requested adds none of
\* its chunks to the engine, and once every load has settled, the last one
\* having resolved, the engine holds the chunks of that load and no other.
SupersededLoadDiscarded ==
    /\ \A k \in 1..Len(loads) :
          (loads[k].state = "resolved" /\ loads[k].superseded) =>
              loads[k].handle \notin scene \cup Listed(chunksByLOD)
    /\ (/\ loads # << >>
        /\ \A k \in 1..Len(loads) : loads[k].state # "pending"
        /\ loads[Len(loads)].state = "resolved") =>
           /\ Listed(chunksByLOD) = {loads[Len(loads)].handle}
           /\ scene = {loads[Len(loads)].handle}
           /\ chunks[1] = loads[Len(loads)].handle

(***************************************************************************)
(* PointCloudLoader: properties                                            *)
(***************************************************************************)
\* C22: splitIntoChunks(data, chunkSize, lod) returns ceil(count / chunkSize)
\* chunks that are consecutive slices of data in the original order, without
\* overlap and without gap: each holds between 1 and chunkSize points, its
\* colours cover the range of its points, the counts sum to data.count, the
\* ids differ pairwise and every chunk carries lod.
SplitCoversDataInOrder ==
    ld.split.done =>
        LET data == ld.split.data
            size == ld.split.chunkSize
            out == ld.split.chunks
            n == Len(out)
        IN  /\ n * size >= data.count
            /\ (n - 1) * size < data.count
            /\ Concat([j \in 1..n |-> out[j].points]) = data.points
            /\ Concat([j \in 1..n |-> out[j].colors]) = data.colors
            /\ \A j \in 1..n :
                  /\ out[j].count \in 1..size
                  /\ Len(out[j].points) = 3 * out[j].count
                  /\ Len(out[j].colors) = Len(out[j].points)
                  /\ out[j].lod = ld.split.lod
                  /\ j < n => out[j].count = size
            /\ SumOver(1..n, [j \in 1..n |-> out[j].count]) = data.count
            /\ \A j, k \in 1..n : j # k => out[j].id # out[k].id

\* three points split by two: a full chunk and a chunk of the one point left
SplitLeavesShortLastChunk ==
    /\ ld.split.done
    /\ ld.split.data.count = 3
    /\ ld.split.chunkSize = 2
    /\ Len(ld.split.chunks) = 2
    /\ ld.split.chunks[2].count = 1

\* C25: after a load with enableCache has resolved, a later load of a file
\* of the same bytes, enableCache set and nothing evicted, finds the cached
\* entry, returns chunks built from the saved tiers and does not call the
\* worker's parsePCD again.
CachedLoadSkipsParse ==
    (/\ ld.cachedBefore
     /\ ld.opts.enableCache
     /\ getPointCloud(ld.store, <<generateFileHash(ld.file), 0>>) # << >>) =>
        /\ ld.parseCalls = 0
        /\ ld.pc = "resolved" => ld.fromCache

\* C28: in a load the percentages handed to onProgress never decrease and
\* stay within 0..100, 100 is handed over only by the last callback of a
\* load that resolves, and once the load has settled the timer of the
\* simulated progress is cancelled and no callback follows.
ProgressNeverFallsBack ==
    LET p == ld.progress
    IN  /\ \A i \in 1..Len(p) : p[i] \in Thirds(0)..Thirds(100)
        /\ \A i, j \in 1..Len(p) : i < j => p[i] <= p[j]
        /\ \A i \in 1..Len(p) :
              p[i] = Thirds(100) => (i = Len(p) /\ ld.pc = "resolved")
        /\ LoaderSettled => (~ld.timer /\ Len(p) = ld.settledAt)

\* a load that resolved after the timer had reported its cap of 45 twice
LoadDoneAfterCappedTicks ==
    /\ ld.pc = "resolved"
    /\ ld.opts.lodLevels = MaxLodLevels
    /\ \E i \in 1..(Len(ld.progress) - 1) :
          ld.progress[i] = Thirds(45) /\ ld.progress[i + 1] = Thirds(45)

(***************************************************************************)
(* SceneManager: properties                                                *)
(***************************************************************************)
\* C26: once every batch timer has run, pointCloudData is what the most
\* recent call of updatePointCloud or clearPointCloud asked for: a batched
\* update that a later call superseded does not overwrite the later state.
LatestCallStored ==
    (sm.calls > 0 /\ sm.timers = << >>) => sm.pointCloudData = sm.last

=============================================================================
